---- MODULE Spec2Model ----
(***************************************************************************)
(* Model of the hydrodynamic force engine of HydroChrono (class TestHydro,  *)
(* src/src/hydro_forces.cpp): the per-time-step force cache of             *)
(* CoordinateFuncForBody, the hydrostatic force, the radiation-damping     *)
(* convolution over the pruned time/velocity history and the wave force.   *)
(*                                                                         *)
(* Doubles are modelled as exact rationals <<n, d>> (d > 0, lowest terms). *)
(* Vectors are 1-based sequences: C++ index i is element i + 1.            *)
(***************************************************************************)
EXTENDS Integers, Sequences, FiniteSets, TLC

VARIABLES
    chTime,                     \* bodies_[0]->GetChTime(): host simulation time
    bodyState,                  \* host scenario: fixes every body's pose and velocity
    rirf_time_vector,           \* RIRF time vector read at construction
    b_num_,                     \* ForceFunc6d::b_num_ of the hookup of each body position
    convolution_mode_,          \* RadiationConvolutionMode: "Baseline" or "TaperedDirect"
    rirf_processed_ready_,      \* whether the processed RIRF tensor has been built
    runner,                     \* RunHydroChronoFromYAML: where it is, how the hydro setup
                                \*   ended, steps done, value returned
    hookups,                    \* force_per_body_ while the constructor fills it: the
                                \*   ForceFunc6d objects, the vector and the Chrono forces
    logsys,                     \* the logging system: g_logging_mutex, g_initialized,
                                \*   g_cli_logger, the CLILogger objects, each thread's place
    user_waves_,                \* the wave model in use
    prev_time,                  \* time of the last recomputation (-1 at construction)
    time_history_,              \* recorded times, most recent first
    velocity_history_,          \* per body: recorded 6-DOF velocities, most recent first
    force_hydrostatic_,         \* 6N
    force_radiation_damping_,   \* 6N
    force_waves_,               \* 6N once computed, empty before
    total_force_,               \* 6N
    recorded,                   \* history variable: every time ever pushed on time_history_
    nrec,                       \* history variable: number of state-mutating calls so far
    cache,                      \* history variable: how the last recomputation ended
                                \*   ("never": none yet, "complete", "raised")
    last                        \* history variable: what the last call did and returned

vars == <<chTime, bodyState, rirf_time_vector, b_num_, convolution_mode_,
          rirf_processed_ready_, runner, hookups, logsys, user_waves_, prev_time,
          time_history_, velocity_history_, force_hydrostatic_,
          force_radiation_damping_, force_waves_, total_force_, recorded, nrec, cache,
          last>>

hostVars == <<chTime, bodyState>>
kernelVars == <<convolution_mode_, rirf_processed_ready_>>
sideVars == <<hookups, logsys>>
dataVars == <<rirf_time_vector, b_num_, kernelVars, runner, sideVars>>

----------------------------------------------------------------------------
(* Bounds of the model *)

NumBodies == 2          \* N: bodies given to the constructor
MaxTime == 3            \* a host that only advances reaches the times 0 .. MaxTime
MaxCalls == 2           \* state-mutating calls per behaviour, direct calls included
MaxRecomputes == 3      \* recomputations per behaviour under a host that may rewind
MaxRirfLen == 3         \* longest RIRF time vector whose widths are computed on its own
MaxSteps == 2           \* simulation steps of one run of the runner
MaxLines == 3           \* lines of a hydro file after the lines it starts with
MaxCapacity == 4        \* largest capacity that force_per_body_ grows to
NumThreads == 2         \* threads that call the logging functions
MaxLoggers == 2         \* CLILogger objects that Initialize creates in one behaviour

\* the times a host that may rewind moves between, and the host scenarios
\* (scenario 0: every body at rest in its equilibrium pose)
AnyTimes == {-1, 0, 1}
Scenarios == {0, 1}

kDofPerBody == 6
kDofLinOrRot == 3

Bodies == 1..NumBodies
TotalDofs == kDofPerBody * NumBodies
Dofs == 0..(kDofPerBody - 1)

----------------------------------------------------------------------------
(* Exact rational arithmetic for the double values *)

Abs(x) == IF x < 0 THEN -x ELSE x

RECURSIVE GCD(_, _)
GCD(a, b) == IF b = 0 THEN a ELSE GCD(b, a % b)

Q(n, d) ==
    IF n = 0 THEN <<0, 1>>
    ELSE LET s == IF d < 0 THEN -1 ELSE 1
             g == GCD(Abs(n), Abs(d))
         IN  <<(s * n) \div g, (s * d) \div g>>

QInt(n) == <<n, 1>>
QZero == <<0, 1>>
QAdd(x, y) == IF x[2] = 1 /\ y[2] = 1 THEN <<x[1] + y[1], 1>>
              ELSE Q(x[1] * y[2] + y[1] * x[2], x[2] * y[2])
QNeg(x) == <<-x[1], x[2]>>
QSub(x, y) == QAdd(x, QNeg(y))
QMul(x, y) == IF x[2] = 1 /\ y[2] = 1 THEN <<x[1] * y[1], 1>>
              ELSE Q(x[1] * y[1], x[2] * y[2])

ZeroVec(n) == [i \in 1..n |-> QZero]

----------------------------------------------------------------------------
(* Data of the hydrodynamic database (file_info_) and of the host solver *)

WaveModels == {"NoWave", "RegularWave"}

\* file_info_.GetRIRFTimeVector(): the time vectors the model is run with
RirfTimeChoices == {<<0>>, <<0, 1>>, <<0, 1, 3>>}

\* file_info_.GetRhoVal()
GetRhoVal == 2

\* bodies_[0]->GetSystem()->GetGravitationalAcceleration()
GetGravitationalAcceleration == <<0, 0, -3>>

\* ChVector3d::Length(), defined here for vectors of integer length
Length(v) == CHOOSE n \in 0..(Abs(v[1]) + Abs(v[2]) + Abs(v[3])) :
                 n * n = v[1] * v[1] + v[2] * v[2] + v[3] * v[3]

\* file_info_.GetCGVector(b), file_info_.GetCBVector(b), b 0-based
GetCGVector(b) == <<0, 0, -(b + 1)>>
GetCBVector(b) == IF b = 0 THEN GetCGVector(b) ELSE <<b, 0, -(b + 2)>>

\* file_info_.GetDispVolVal(b), b 0-based
GetDispVolVal(b) == b + 1

\* file_info_.GetLinMatrix(b)(i, j), all indices 0-based
GetLinMatrix(b, i, j) ==
    IF i = j /\ i \in {2, 3, 4} THEN b + i
    ELSE IF {i, j} = {2, 4} THEN 1
    ELSE 0

\* file_info_.GetRIRFVal(body_index, row_dof, col, st), all indices 0-based
GetRIRFVal(body_index, row_dof, col, st) ==
    ((body_index + 2 * row_dof + 3 * col + st) % 5) - 2

\* body->GetPos() and body->GetRot().GetCardanAnglesXYZ() of body b (0-based) in
\* host scenario k: scenario 0 is the equilibrium pose
BodyPose(k, b) ==
    LET cg == GetCGVector(b)
    IN  <<cg[1], cg[2] + (IF b = 1 THEN k ELSE 0), cg[3] + k, 0, k * (b + 1), 0>>

\* body->GetPosDt() and body->GetAngVelParent() of body b (0-based) in scenario k
BodyVelocity(k, b) ==
    <<0, 0, k * (b + 1), 0, IF b = 0 THEN -k ELSE 0, IF b = 1 THEN k ELSE 0>>

\* user_waves_->GetForceAtTime(t): NoWave gives the zero vector; the regular wave
\* is a fixed periodic excitation
GetForceAtTime(w, t) ==
    [i \in 1..TotalDofs |->
        IF w = "NoWave" THEN QZero ELSE QInt(((t + i) % 3) - 1)]

----------------------------------------------------------------------------
(* Construction: TestHydro::TestHydro *)

\* the functions that the unqualified call abs(double) can bind to: the
\* floating-point overload, or int abs(int) after conversion of the argument
AbsOverloads == {"double", "int"}

\* conversion of a double to int: truncation toward zero
TruncToInt(x) == IF x[1] >= 0 THEN x[1] \div x[2] ELSE -((-x[1]) \div x[2])

\* abs(x) for a double x, as the overload in use computes it
CAbs(x, overload) ==
    IF overload = "int" THEN QInt(Abs(TruncToInt(x))) ELSE <<Abs(x[1]), x[2]>>

\* rirf_width_vector for a time vector of doubles
RirfWidthVector(times, overload) ==
    [s \in 1..Len(times) |->
        QAdd(IF s - 1 < Len(times) - 1
             THEN QMul(Q(1, 2), CAbs(QSub(times[s + 1], times[s]), overload))
             ELSE QZero,
             IF s - 1 > 0
             THEN QMul(Q(1, 2), CAbs(QSub(times[s], times[s - 1]), overload))
             ELSE QZero)]

\* rirf_width_vector[ii], ii 0-based, for whole-number times (on which the
\* overloads of abs agree)
RirfWidth(tau, ii) ==
    QAdd(IF ii < Len(tau) - 1 THEN Q(Abs(tau[ii + 2] - tau[ii + 1]), 2) ELSE QZero,
         IF ii > 0 THEN Q(Abs(tau[ii + 1] - tau[ii]), 2) ELSE QZero)

\* equilibrium_[eq_idx], eq_idx 0-based: the CG in the three translations, 0 elsewhere
Equilibrium(eq_idx) ==
    LET b == eq_idx \div kDofPerBody
        i == eq_idx % kDofPerBody
    IN  IF i < kDofLinOrRot THEN GetCGVector(b)[i + 1] ELSE 0

\* cb_minus_cg_[c_idx], c_idx 0-based
CbMinusCg(c_idx) ==
    LET b == c_idx \div kDofLinOrRot
        i == c_idx % kDofLinOrRot
    IN  GetCBVector(b)[i + 1] - GetCGVector(b)[i + 1]

\* prev_time = -1
InitPrevTime == -1

\* faulty variant: the force buffers are sized but not zeroed
InitForceBufferNotZeroed == [i \in 1..TotalDofs |-> QInt(1)]

\* force_hydrostatic_, force_radiation_damping_, total_force_: assign(total_dofs, 0.0)
InitForceBuffer == ZeroVec(TotalDofs)

NoCall == [op |-> "none"]

\* RunHydroChronoFromYAML before its hydrodynamic setup: no step done, nothing
\* returned yet
RunnerAtStart == [stage |-> "start", hydro |-> "not_run", step_count |-> 0,
                  returned |-> "nothing"]

\* the decimal digits as characters; a string is a sequence of characters
DigitChars == <<"0", "1", "2", "3", "4", "5", "6", "7", "8", "9">>
IsDigit(c) == \E d \in 1..Len(DigitChars) : DigitChars[d] = c
DigitVal(c) == (CHOOSE d \in 1..Len(DigitChars) : DigitChars[d] = c) - 1

\* std::string::erase(pos, n): removes at most n characters from position pos
Erase(str, pos, n) ==
    SubSeq(str, 1, pos) \o SubSeq(str, pos + n + 1, Len(str))

RECURSIVE StoiDigits(_, _, _)
\* the value of the longest run of digits of str from position i on, after acc
StoiDigits(str, i, acc) ==
    IF i <= Len(str) /\ IsDigit(str[i])
    THEN StoiDigits(str, i + 1, 10 * acc + DigitVal(str[i]))
    ELSE acc

\* std::stoi(str): skips leading blanks, reads an optional sign and the longest
\* run of digits; std::invalid_argument when there is no digit to read
Stoi(str) ==
    LET blanks == {i \in 1..Len(str) : \A j \in 1..i : str[j] = " "}
        start == Cardinality(blanks) + 1
        signed == start <= Len(str) /\ str[start] \in {"+", "-"}
        first == IF signed THEN start + 1 ELSE start
    IN  IF first <= Len(str) /\ IsDigit(str[first])
        THEN [ok |-> TRUE,
              val |-> (IF signed /\ str[start] = "-" THEN -1 ELSE 1)
                         * StoiDigits(str, first, 0)]
        ELSE [ok |-> FALSE]

\* the name "body<n>" that the hookups expect (n < 10)
BodyName(n) == <<"b", "o", "d", "y", DigitChars[n + 1]>>

\* ChBody::GetName() of the bodies handed to the constructor: the conventional
\* names and two other ones
ChBodyNames ==
    {BodyName(n) : n \in 1..NumBodies}
        \cup {<<"h", "u", "l", "l", "2">>, <<"h", "u", "l", "l">>}

\* b_num_ = stoi(temp.erase(0, 4)) in ForceFunc6d::ForceFunc6d
ParseBodyNumber(name) == Stoi(Erase(name, 0, 4))

\* the body lists with which all hookups can be constructed (stoi does not throw)
UserBodies ==
    {names \in [Bodies -> ChBodyNames] : \A k \in Bodies : ParseBodyNumber(names[k]).ok}

\* the body numbers of a body list named body1, body2, ... in order
InOrderBodyNumbers == [k \in Bodies |-> k]

Threads == 1..NumThreads

\* the logging system at program start: g_logging_mutex free, g_initialized
\* false, g_cli_logger null (0), no CLILogger created, every thread outside
\* the logging functions
LoggingAtStart ==
    [mutex |-> 0, initialized |-> FALSE, logger |-> 0, made |-> 0,
     pc |-> [t \in Threads |-> "idle"],
     held |-> [t \in Threads |-> 0],
     op |-> [t \in Threads |-> "none"],
     msg |-> [t \in Threads |-> "none"],
     warnings |-> [g \in 1..MaxLoggers |-> <<>>],
     showing |-> [g \in 1..MaxLoggers |-> FALSE]]

\* force_per_body_ before the loop of the constructor that fills it: no
\* ForceFunc6d object yet, an empty vector without storage, no force registered
HookupsAtStart ==
    [objs |-> <<>>, vec |-> <<>>, capacity |-> 0,
     chrono |-> [k \in Bodies |-> [force_base |-> 0, torque_base |-> 0, added |-> 0]]]

\* ForceFunc6d(object, this) for body position k: the object gets the next
\* address, creates the Chrono force and torque of the body, points their
\* component functions at itself (SetForce, SetTorque) and registers them with
\* the body (ApplyForceAndTorqueToBody)
ConstructForceFunc6d(h, k) ==
    LET a == Len(h.objs) + 1
    IN  [h EXCEPT !.objs = Append(@, [alive |-> TRUE, body |-> k]),
                  !.chrono[k] = [force_base |-> a, torque_base |-> a,
                                 added |-> @.added + 1]]

\* faulty variant: the copy shares the Chrono force and torque of the original
\* and leaves their component functions as they are
CopyKeepsOldFunctions(h, old) ==
    [h EXCEPT !.objs = Append(@, [alive |-> TRUE, body |-> h.objs[old].body])]

\* ForceFunc6d(const ForceFunc6d& old): the copy gets the next address, shares
\* the Chrono force and torque of the original and points their component
\* functions at itself (SetForce, SetTorque); nothing is registered again
CopyForceFunc6d(h, old) ==
    LET a == Len(h.objs) + 1
        k == h.objs[old].body
    IN  [h EXCEPT !.objs = Append(@, [alive |-> TRUE, body |-> k]),
                  !.chrono[k] = [@ EXCEPT !.force_base = a, !.torque_base = a]]

RECURSIVE CopyElements(_, _, _)
\* the elements i, i + 1, ... of the old storage are copied into the new one
CopyElements(h, olds, i) ==
    IF i > Len(olds) THEN h ELSE CopyElements(CopyForceFunc6d(h, olds[i]), olds, i + 1)

\* the objects of the old storage are destroyed
DestroyElements(h, olds) ==
    [h EXCEPT !.objs = [a \in 1..Len(h.objs) |->
                           IF \E i \in 1..Len(olds) : olds[i] = a
                           THEN [h.objs[a] EXCEPT !.alive = FALSE]
                           ELSE h.objs[a]]]

\* force_per_body_.emplace_back(bodies_[b], this): with spare capacity the new
\* element is built in place; else new storage of new_capacity elements is
\* taken, the new element is built in it, the old elements are copied over and
\* their originals destroyed
EmplaceBack(h, new_capacity) ==
    LET k == Len(h.vec) + 1
        a == Len(h.objs) + 1
        built == ConstructForceFunc6d(h, k)
        copied == CopyElements(built, h.vec, 1)
    IN  IF Len(h.vec) < h.capacity
        THEN [built EXCEPT !.vec = Append(@, a)]
        ELSE [DestroyElements(copied, h.vec) EXCEPT
                 !.vec = [i \in 1..k |-> IF i = k THEN a ELSE a + i],
                 !.capacity = new_capacity]

Init ==
    /\ chTime = 0
    /\ bodyState = 0
    /\ rirf_time_vector \in RirfTimeChoices
    /\ \E names \in UserBodies :
          b_num_ = [k \in Bodies |-> ParseBodyNumber(names[k]).val]
    /\ convolution_mode_ = "Baseline"
    /\ rirf_processed_ready_ = FALSE
    /\ runner = RunnerAtStart
    /\ hookups = HookupsAtStart
    /\ logsys = LoggingAtStart
    /\ user_waves_ \in WaveModels
    /\ prev_time = InitPrevTime
    /\ time_history_ = <<>>
    /\ velocity_history_ = [b \in Bodies |-> <<>>]
    /\ force_hydrostatic_ = InitForceBuffer
    /\ force_radiation_damping_ = InitForceBuffer
    /\ force_waves_ = <<>>
    /\ total_force_ = InitForceBuffer
    /\ recorded = {}
    /\ nrec = 0
    /\ cache = "never"
    /\ last = NoCall

----------------------------------------------------------------------------
(* TestHydro::ComputeForceHydrostatics *)

\* faulty variant: the pose is not taken relative to the equilibrium
DisplacementFromOrigin(k, b, i) == BodyPose(k, b)[i + 1]

\* displacement_from_equilibrium[i] of body b (0-based) in host scenario k
Displacement(k, b, i) == BodyPose(k, b)[i + 1] - Equilibrium(kDofPerBody * b + i)

RECURSIVE StiffnessRow(_, _, _, _)
\* (restoring_stiffness_matrix * displacement_from_equilibrium)[i], columns j..5
StiffnessRow(k, b, i, j) ==
    IF j >= kDofPerBody THEN 0
    ELSE GetLinMatrix(b, i, j) * Displacement(k, b, j) + StiffnessRow(k, b, i, j + 1)

\* restoring_force_torque[i] = -rho_times_g * (K * displacement)[i]
RestoringForceTorque(k, b, i) ==
    -(GetRhoVal * Length(GetGravitationalAcceleration)) * StiffnessRow(k, b, i, 0)

\* buoyancy_force = rho * (-g) * displaced_volume
BuoyancyForce(b) ==
    [c \in 1..3 |-> GetRhoVal * (-GetGravitationalAcceleration[c]) * GetDispVolVal(b)]

\* buoyancy_torque = cg_to_cb % buoyancy_force (cross product)
BuoyancyTorque(b) ==
    LET r == [c \in 1..3 |-> CbMinusCg(kDofLinOrRot * b + (c - 1))]
        f == BuoyancyForce(b)
    IN  <<r[2] * f[3] - r[3] * f[2], r[3] * f[1] - r[1] * f[3], r[1] * f[2] - r[2] * f[1]>>

\* what one call adds to body_force_hydrostatic[i] of body b
HydrostaticIncrement(k, b, i) ==
    RestoringForceTorque(k, b, i)
      + (IF i < kDofLinOrRot THEN BuoyancyForce(b)[i + 1]
         ELSE BuoyancyTorque(b)[i - kDofLinOrRot + 1])

\* The buffer after the call: every slot is incremented (+=), nothing is reset
ComputeForceHydrostatics(buf, k) ==
    [idx \in 1..TotalDofs |->
        QAdd(buf[idx],
             QInt(HydrostaticIncrement(k, (idx - 1) \div kDofPerBody, (idx - 1) % kDofPerBody)))]

----------------------------------------------------------------------------
(* TestHydro::ComputeForceRadiationDampingConv *)

\* faulty variant: the window is measured with the first RIRF time instead of the last
HistoryMinTimeFirst(t, tau) == t - (IF Len(tau) - 1 >= 0 THEN tau[1] ELSE 0)

\* history_min_time = simulation_time - rirf_time_vector[last]
HistoryMinTime(t, tau) == t - (IF Len(tau) - 1 >= 0 THEN tau[Len(tau)] ELSE 0)

\* faulty variant: the duplicate-step guard is dropped
IsDuplicateStepNever(th, t) == FALSE

\* the guard against a second computation in the same step
IsDuplicateStep(th, t) == th # <<>> /\ t = Head(th)

RECURSIVE PruneDropsPadding(_, _)
\* faulty variant: the loop tests the oldest entry itself, so no padding sample is kept
PruneDropsPadding(th, minTime) ==
    IF Len(th) > 1 /\ th[Len(th)] < minTime
    THEN PruneDropsPadding(SubSeq(th, 1, Len(th) - 1), minTime)
    ELSE th

RECURSIVE PruneHistory(_, _)
\* the pruning loop on time_history_: drop the oldest entry while the second-oldest
\* is older than history_min_time
PruneHistory(th, minTime) ==
    IF Len(th) > 1 /\ th[Len(th) - 1] < minTime
    THEN PruneHistory(SubSeq(th, 1, Len(th) - 1), minTime)
    ELSE th

\* faulty variant: the velocity lists are not pruned with the time list
PruneVelocityNever(vhb, dropped) == vhb

\* the same loop on one body's velocity list: one pop_back per dropped time,
\* skipped when the list is already empty
PruneVelocity(vhb, dropped) ==
    SubSeq(vhb, 1, IF Len(vhb) > dropped THEN Len(vhb) - dropped ELSE 0)

RECURSIVE AdvanceCursor(_, _, _)
\* while ((history_index + 1) < size && time_history_[history_index + 1] > query)
AdvanceCursor(th, history_index, query) ==
    IF (history_index + 1) < Len(th) /\ th[history_index + 2] > query
    THEN AdvanceCursor(th, history_index + 1, query)
    ELSE history_index

\* faulty variant: a query time on one of the two samples is not accepted
IsBracketedInside(query, newer, older) == query > older /\ query < newer

\* the three accepted positions of the query time in [older, newer]
IsBracketed(query, newer, older) ==
    \/ query = older
    \/ query = newer
    \/ (query > older /\ query < newer)

\* faulty variant: the two bracketing samples are always blended half and half
InterpolateVelocityBlend(query, newer, older, newer_velocity, older_velocity) ==
    Q(newer_velocity + older_velocity, 2)

\* interpolated_velocity_dof[dof] of one body, from its two bracketing samples
InterpolateVelocity(query, newer, older, newer_velocity, older_velocity) ==
    IF query = older THEN QInt(older_velocity)
    ELSE IF query = newer THEN QInt(newer_velocity)
    ELSE LET time_delta == newer - older
             weight_older == IF time_delta # 0 THEN Q(newer - query, time_delta) ELSE QZero
             weight_newer == QSub(QInt(1), weight_older)
         IN  QAdd(QMul(weight_older, QInt(older_velocity)),
                  QMul(weight_newer, QInt(newer_velocity)))

\* GetRIRFval(row, col, st): row -> (body_index, row_dof); the loops below keep
\* row, col and st inside the bounds the function checks
GetRIRFval(row, col, st) ==
    GetRIRFVal(row \div kDofPerBody, row % kDofPerBody, col, st)

\* contribution_scale = interpolated_velocity_dof[dof] * step_width of column col
ContributionScale(vh, col, step, history_index, query, newer, older, tau) ==
    LET vhb == vh[(col \div kDofPerBody) + 1]
        dof == col % kDofPerBody
    IN  QMul(InterpolateVelocity(query, newer, older,
                                 vhb[history_index + 1][dof + 1],
                                 vhb[history_index + 2][dof + 1]),
             RirfWidth(tau, step))

RECURSIVE AccumulateColumns(_, _, _, _, _, _, _, _, _)
\* the loops over body_index and dof (columns col..6N-1) of one RIRF step: a body
\* whose velocity list is shorter than the cursor is skipped, as is a column whose
\* contribution_scale is zero; every other column adds
\* GetRIRFval(row, col, step) * contribution_scale to every row
AccumulateColumns(col, rad, vh, step, history_index, query, newer, older, tau) ==
    IF col >= TotalDofs THEN rad
    ELSE IF Len(vh[(col \div kDofPerBody) + 1]) <= history_index
    THEN AccumulateColumns(col + 1, rad, vh, step, history_index, query, newer, older, tau)
    ELSE
      LET contribution_scale ==
              ContributionScale(vh, col, step, history_index, query, newer, older, tau)
      IN  IF contribution_scale = QZero
          THEN AccumulateColumns(col + 1, rad, vh, step, history_index, query, newer,
                                 older, tau)
          ELSE AccumulateColumns(col + 1,
                   [r \in 1..TotalDofs |->
                       QAdd(rad[r], QMul(QInt(GetRIRFval(r - 1, col, step)),
                                         contribution_scale))],
                   vh, step, history_index, query, newer, older, tau)

RECURSIVE ConvolveStepsForgets(_, _, _, _, _, _, _)
\* faulty variant: when the cursor runs out of history the buffer accumulated so
\* far is dropped
ConvolveStepsForgets(step, history_index, rad, t, th, vh, tau) ==
    IF step >= Len(tau) THEN [err |-> "none", rad |-> rad]
    ELSE
      LET query == t - tau[step + 1]
          hi == AdvanceCursor(th, history_index, query)
      IN  IF (hi + 1) >= Len(th) THEN [err |-> "none", rad |-> ZeroVec(TotalDofs)]
          ELSE
            LET newer == th[hi + 1]
                older == th[hi + 2]
            IN  IF ~IsBracketed(query, newer, older)
                     /\ \E b \in Bodies : Len(vh[b]) > hi
                THEN [err |-> "interpolation", rad |-> rad]
                ELSE ConvolveStepsForgets(step + 1, hi,
                         AccumulateColumns(0, rad, vh, step, hi, query, newer, older, tau),
                         t, th, vh, tau)

RECURSIVE ConvolveSteps(_, _, _, _, _, _, _)
\* the loop over the RIRF steps, from `step` on, with the cursor at history_index
\* and the buffer accumulated so far in rad
ConvolveSteps(step, history_index, rad, t, th, vh, tau) ==
    IF step >= Len(tau) THEN [err |-> "none", rad |-> rad]
    ELSE
      LET query == t - tau[step + 1]
          hi == AdvanceCursor(th, history_index, query)
      IN  IF (hi + 1) >= Len(th) THEN [err |-> "none", rad |-> rad]
          ELSE
            LET newer == th[hi + 1]
                older == th[hi + 2]
            IN  IF ~IsBracketed(query, newer, older)
                     /\ \E b \in Bodies : Len(vh[b]) > hi
                THEN [err |-> "interpolation", rad |-> rad]
                ELSE ConvolveSteps(step + 1, hi,
                         AccumulateColumns(0, rad, vh, step, hi, query, newer, older, tau),
                         t, th, vh, tau)

\* The body of the call after the duplicate-step guard: the sample is recorded,
\* the history pruned and the kernel convolved
RecordAndConvolve(th, vh, rad, t, k, tau) ==
    LET th1 == <<t>> \o th
        vh1 == [b \in Bodies |-> <<BodyVelocity(k, b - 1)>> \o vh[b]]
        th2 == IF Len(th1) > 1 THEN PruneHistory(th1, HistoryMinTime(t, tau)) ELSE th1
        vh2 == [b \in Bodies |-> PruneVelocity(vh1[b], Len(th1) - Len(th2))]
    IN  IF Len(th2) <= 1
        THEN [err |-> "none", th |-> th2, vh |-> vh2, rad |-> rad, pushed |-> TRUE]
        ELSE LET c == ConvolveSteps(0, 0, rad, t, th2, vh2, tau)
             IN  [err |-> c.err, th |-> th2, vh |-> vh2, rad |-> c.rad, pushed |-> TRUE]

\* faulty variant: the duplicate-step test comes after the sample is recorded
ComputeForceRadiationDampingConvLateGuard(th, vh, rad, t, k, tau) ==
    IF IsDuplicateStep(th, t)
    THEN [err |-> "duplicate", th |-> <<t>> \o th,
          vh |-> [b \in Bodies |-> <<BodyVelocity(k, b - 1)>> \o vh[b]],
          rad |-> rad, pushed |-> TRUE]
    ELSE RecordAndConvolve(th, vh, rad, t, k, tau)

\* The whole call at host time t in scenario k: the error raised (or "none"), the
\* histories and the buffer it leaves, and the vector it returns
ComputeForceRadiationDampingConv(th, vh, rad, t, k, tau) ==
    IF IsDuplicateStep(th, t)
    THEN [err |-> "duplicate", th |-> th, vh |-> vh, rad |-> rad, pushed |-> FALSE]
    ELSE RecordAndConvolve(th, vh, rad, t, k, tau)

----------------------------------------------------------------------------
(* TestHydro::ComputeForceWaves, TestHydro::CoordinateFuncForBody *)

\* force_waves_ = user_waves_->GetForceAtTime(bodies_[0]->GetChTime())
ComputeForceWaves(w, t) == GetForceAtTime(w, t)

\* faulty variant: only the flat index into total_force_ is validated
InvalidIndexFlat(b, dof_index) ==
    \/ kDofPerBody * (b - 1) + dof_index < 0
    \/ kDofPerBody * (b - 1) + dof_index >= TotalDofs

\* the index check at the head of CoordinateFuncForBody
InvalidIndex(b, dof_index) ==
    dof_index < 0 \/ dof_index >= kDofPerBody \/ b < 1 \/ b > NumBodies

\* faulty variant: the cache test is dropped, every call recomputes
IsCachedNever(t, prev) == FALSE

\* the cache test: the forces of this time step are already computed
IsCached(t, prev) == t = prev

\* faulty variant: the radiation damping is added instead of subtracted
TotalForceAllAdded(hs, rad, wav) ==
    [i \in 1..TotalDofs |-> QAdd(QAdd(hs[i], rad[i]), wav[i])]

\* total_force_[index] = hydrostatic - radiation damping + waves
TotalForce(hs, rad, wav) ==
    [i \in 1..TotalDofs |-> QAdd(QSub(hs[i], rad[i]), wav[i])]

\* faulty variant: the buffers are not reset before the recomputation
FillKeeps(v) == v

\* std::fill(v.begin(), v.end(), 0.0): the size is kept
FillZero(v) == [i \in 1..Len(v) |-> QZero]

\* The recomputation branch of CoordinateFuncForBody: the state it leaves, also
\* when ComputeForceRadiationDampingConv raises in the middle of it
Recompute(t, k) ==
    LET hs == ComputeForceHydrostatics(FillZero(force_hydrostatic_), k)
        c == ComputeForceRadiationDampingConv(time_history_, velocity_history_,
                 FillZero(force_radiation_damping_), t, k, rirf_time_vector)
        wav == IF c.err = "none" THEN ComputeForceWaves(user_waves_, t)
               ELSE FillZero(force_waves_)
    IN  [err |-> c.err, th |-> c.th, vh |-> c.vh, hs |-> hs, rad |-> c.rad, wav |-> wav,
         pushed |-> c.pushed,
         total |-> IF c.err = "none" THEN TotalForce(hs, c.rad, wav)
                   ELSE FillZero(total_force_)]

\* double CoordinateFuncForBody(int b, int dof_index), at most `cap` mutating calls;
\* r is the outcome of the recomputation branch in the current state
CoordinateFuncForBody(b, dof_index, cap, r) ==
    IF InvalidIndex(b, dof_index)
    THEN /\ last' = [op |-> "CoordinateFuncForBody", b |-> b, dof |-> dof_index,
                     err |-> "out_of_range", recomputed |-> FALSE,
                     nHydrostatics |-> 0, nRadiation |-> 0, nWaves |-> 0]
         /\ UNCHANGED <<hostVars, dataVars, user_waves_, prev_time, time_history_,
                        velocity_history_, force_hydrostatic_, force_radiation_damping_,
                        force_waves_, total_force_, recorded, nrec, cache>>
    ELSE IF IsCached(chTime, prev_time)
    THEN /\ last' = [op |-> "CoordinateFuncForBody", b |-> b, dof |-> dof_index,
                     err |-> "none", recomputed |-> FALSE,
                     ret |-> total_force_[kDofPerBody * (b - 1) + dof_index + 1],
                     nHydrostatics |-> 0, nRadiation |-> 0, nWaves |-> 0]
         /\ UNCHANGED <<hostVars, dataVars, user_waves_, prev_time, time_history_,
                        velocity_history_, force_hydrostatic_, force_radiation_damping_,
                        force_waves_, total_force_, recorded, nrec, cache>>
    ELSE /\ nrec < cap
         /\ prev_time' = chTime
         /\ time_history_' = r.th
         /\ velocity_history_' = r.vh
         /\ force_hydrostatic_' = r.hs
         /\ force_radiation_damping_' = r.rad
         /\ force_waves_' = r.wav
         /\ total_force_' = r.total
         /\ recorded' = IF r.pushed THEN recorded \cup {chTime} ELSE recorded
         /\ last' = IF r.err = "none"
                    THEN [op |-> "CoordinateFuncForBody", b |-> b, dof |-> dof_index,
                          err |-> "none", recomputed |-> TRUE,
                          ret |-> r.total[kDofPerBody * (b - 1) + dof_index + 1],
                          nHydrostatics |-> 1, nRadiation |-> 1, nWaves |-> 1]
                    ELSE [op |-> "CoordinateFuncForBody", b |-> b, dof |-> dof_index,
                          err |-> r.err, recomputed |-> TRUE,
                          nHydrostatics |-> 1, nRadiation |-> 1, nWaves |-> 0]
         /\ nrec' = nrec + 1
         /\ cache' = IF r.err = "none" THEN "complete" ELSE "raised"
         /\ UNCHANGED <<hostVars, dataVars, user_waves_>>

\* A direct call of the public ComputeForceHydrostatics
CallComputeForceHydrostatics(cap) ==
    /\ nrec < cap
    /\ force_hydrostatic_' = ComputeForceHydrostatics(force_hydrostatic_, bodyState)
    /\ last' = [op |-> "ComputeForceHydrostatics", err |-> "none",
                ret |-> force_hydrostatic_']
    /\ nrec' = nrec + 1
    /\ UNCHANGED <<hostVars, dataVars, user_waves_, prev_time, time_history_,
                   velocity_history_, force_radiation_damping_, force_waves_,
                   total_force_, recorded, cache>>

\* A direct call of the public ComputeForceRadiationDampingConv
CallComputeForceRadiationDampingConv(cap) ==
    /\ nrec < cap
    /\ LET c == ComputeForceRadiationDampingConv(time_history_, velocity_history_,
                    force_radiation_damping_, chTime, bodyState, rirf_time_vector)
       IN  /\ time_history_' = c.th
           /\ velocity_history_' = c.vh
           /\ force_radiation_damping_' = c.rad
           /\ recorded' = IF c.pushed THEN recorded \cup {chTime} ELSE recorded
           /\ last' = IF c.err = "none"
                      THEN [op |-> "ComputeForceRadiationDampingConv", err |-> "none",
                            ret |-> c.rad, before |-> force_radiation_damping_,
                            samples |-> Len(c.th)]
                      ELSE [op |-> "ComputeForceRadiationDampingConv", err |-> c.err,
                            before |-> force_radiation_damping_, samples |-> Len(c.th)]
    /\ nrec' = nrec + 1
    /\ UNCHANGED <<hostVars, dataVars, user_waves_, prev_time, force_hydrostatic_,
                   force_waves_, total_force_, cache>>

\* A direct call of the public ComputeForceWaves
CallComputeForceWaves ==
    /\ force_waves_' = ComputeForceWaves(user_waves_, chTime)
    /\ last' = [op |-> "ComputeForceWaves", err |-> "none", ret |-> force_waves_']
    /\ UNCHANGED <<hostVars, dataVars, user_waves_, prev_time, time_history_,
                   velocity_history_, force_hydrostatic_, force_radiation_damping_,
                   total_force_, recorded, nrec, cache>>

\* faulty variant: replacing the wave model also forgets the cached time step
AddWavesResetsCache(waves) ==
    /\ user_waves_' = waves
    /\ prev_time' = InitPrevTime
    /\ last' = [op |-> "AddWaves", err |-> "none"]
    /\ UNCHANGED <<hostVars, dataVars, time_history_, velocity_history_,
                   force_hydrostatic_, force_radiation_damping_, force_waves_,
                   total_force_, recorded, nrec, cache>>

\* void AddWaves(std::shared_ptr<WaveBase> waves)
AddWaves(waves) ==
    /\ user_waves_' = waves
    /\ last' = [op |-> "AddWaves", err |-> "none"]
    /\ UNCHANGED <<hostVars, dataVars, prev_time, time_history_, velocity_history_,
                   force_hydrostatic_, force_radiation_damping_, force_waves_,
                   total_force_, recorded, nrec, cache>>

\* enum class RadiationConvolutionMode
RadiationConvolutionMode == {"Baseline", "TaperedDirect"}

\* void SetRadiationConvolutionMode(RadiationConvolutionMode mode)
SetRadiationConvolutionMode(mode) ==
    /\ convolution_mode_' = mode
    /\ last' = [op |-> "SetRadiationConvolutionMode", err |-> "none"]
    /\ UNCHANGED <<hostVars, rirf_time_vector, b_num_, rirf_processed_ready_, runner,
                   sideVars,
                   user_waves_,
                   prev_time, time_history_, velocity_history_, force_hydrostatic_,
                   force_radiation_damping_, force_waves_, total_force_, recorded, nrec,
                   cache>>

\* RIRF times in half units, and the time vectors of 1..MaxRirfLen samples
HalfTimes == {Q(n, 2) : n \in 0..3}
RirfTimeVectors == UNION {[1..n -> HalfTimes] : n \in 1..MaxRirfLen}

\* The width loop of the constructor, run on a time vector of its own
ComputeRirfWidths(times, overload) ==
    /\ last' = [op |-> "RirfWidths", err |-> "none", times |-> times,
                ret |-> RirfWidthVector(times, overload)]
    /\ UNCHANGED <<hostVars, dataVars, user_waves_, prev_time, time_history_,
                   velocity_history_, force_hydrostatic_, force_radiation_damping_,
                   force_waves_, total_force_, recorded, nrec, cache>>

----------------------------------------------------------------------------
(* Setup from the YAML data: setup_hydro_from_yaml.cpp *)

\* the letters, for ::tolower in the "C" locale
UpperChars == <<"A", "B", "C", "D", "E", "F", "G", "H", "I", "J", "K", "L", "M">>
                  \o <<"N", "O", "P", "Q", "R", "S", "T", "U", "V", "W", "X", "Y", "Z">>
LowerChars == <<"a", "b", "c", "d", "e", "f", "g", "h", "i", "j", "k", "l", "m">>
                  \o <<"n", "o", "p", "q", "r", "s", "t", "u", "v", "w", "x", "y", "z">>

\* faulty variant: the case of the letter is kept
ToLowerKeepsCase(c) == c

\* ::tolower(c): an upper-case letter becomes its lower-case letter, any other
\* character is unchanged
ToLower(c) ==
    IF \E i \in 1..Len(UpperChars) : UpperChars[i] = c
    THEN LowerChars[CHOOSE i \in 1..Len(UpperChars) : UpperChars[i] = c]
    ELSE c

\* std::transform(type.begin(), type.end(), type.begin(), ::tolower)
TransformToLower(str) == [i \in 1..Len(str) |-> ToLower(str[i])]

\* the literals that CreateWaveFromSettings compares the lowered type with
StrRegular == <<"r", "e", "g", "u", "l", "a", "r">>
StrIrregular == <<"i", "r", "r", "e", "g", "u", "l", "a", "r">>
StrNoWave == <<"n", "o", "_", "w", "a", "v", "e">>
StrStillCi == <<"s", "t", "i", "l", "l", "_", "c", "i">>
StrStill == <<"s", "t", "i", "l", "l">>
StrUnsupportedWaveType == <<"U", "n", "s", "u", "p", "p", "o", "r", "t", "e", "d", " ", 
                              "w", "a", "v", "e", " ", "t", "y", "p", "e", ":", " ">>
StrNoBodiesFound == "No hydrodynamic bodies found in Chrono system"

\* wave_settings.type values given to the setup
WaveTypeInputs ==
    {<<"r", "e", "g", "u", "l", "a", "r">>,
     <<"R", "e", "g", "u", "l", "a", "r">>,
     <<"i", "r", "r", "e", "g", "u", "l", "a", "r">>,
     <<"I", "R", "R", "E", "G", "U", "L", "A", "R">>,
     <<"n", "o", "_", "w", "a", "v", "e">>,
     <<"N", "o", "_", "W", "a", "v", "e">>,
     <<"s", "t", "i", "l", "l", "_", "c", "i">>,
     <<"s", "t", "i", "l", "l">>,
     <<"S", "T", "I", "L", "L">>,
     <<"n", "o", "n", "e">>,
     <<"s", "t", "i", "l", "l", "w", "a", "t", "e", "r">>,
     <<"r", "e", "g", "u", "l", "a", "r", " ">>,
     <<>>}

\* CreateWaveFromSettings: the wave model, or the std::runtime_error it throws
CreateWaveFromSettings(wave_type) ==
    LET type == TransformToLower(wave_type)
    IN  IF type = StrRegular THEN [err |-> "none", wave |-> "RegularWave"]
        ELSE IF type = StrIrregular THEN [err |-> "none", wave |-> "IrregularWaves"]
        ELSE IF type = StrNoWave \/ type = StrStillCi \/ type = StrStill
        THEN [err |-> "none", wave |-> "NoWave"]
        ELSE [err |-> "runtime_error", what |-> StrUnsupportedWaveType \o wave_type]

RECURSIVE MatchBodiesByName(_, _)
\* MatchBodiesByName: for every hydro body in order, the first Chrono body of
\* that name if there is one (as its position in chrono_bodies)
MatchBodiesByName(hydro_bodies, chrono_bodies) ==
    IF hydro_bodies = <<>> THEN <<>>
    ELSE LET found == {i \in 1..Len(chrono_bodies) : chrono_bodies[i] = Head(hydro_bodies)}
         IN  (IF found = {} THEN <<>>
              ELSE <<CHOOSE i \in found : \A j \in found : i <= j>>)
                 \o MatchBodiesByName(Tail(hydro_bodies), chrono_bodies)

\* SetupHydroFromYAML: the error it throws, or the TestHydro it returns (its
\* bodies, wave model and convolution mode)
SetupHydroFromYAML(hydro_bodies, chrono_bodies, wave_type, tapered) ==
    LET matched_bodies == MatchBodiesByName(hydro_bodies, chrono_bodies)
        wave == CreateWaveFromSettings(wave_type)
    IN  IF matched_bodies = <<>>
        THEN [err |-> "runtime_error", what |-> <<StrNoBodiesFound>>,
              wave_created |-> FALSE, constructed |-> FALSE]
        ELSE IF wave.err # "none"
        THEN [err |-> wave.err, what |-> wave.what,
              wave_created |-> FALSE, constructed |-> FALSE]
        ELSE [err |-> "none", wave_created |-> TRUE, constructed |-> TRUE,
              bodies |-> matched_bodies, wave |-> wave.wave,
              mode |-> IF tapered THEN "TaperedDirect" ELSE "Baseline"]

\* names of the bodies of the hydro file and of the Chrono system
SetupBodyNames == {"hull", "float"}
SetupBodyLists == UNION {[1..n -> SetupBodyNames] : n \in 0..2}
ChronoBodyLists == {<<>>, <<"hull">>, <<"float", "hull">>}

\* A call of SetupHydroFromYAML
CallSetupHydroFromYAML(hydro_bodies, chrono_bodies, wave_type, tapered) ==
    /\ last' = [op |-> "SetupHydroFromYAML", hydro_bodies |-> hydro_bodies,
                chrono_bodies |-> chrono_bodies, type |-> wave_type,
                result |-> SetupHydroFromYAML(hydro_bodies, chrono_bodies, wave_type,
                                              tapered)]
    /\ UNCHANGED <<hostVars, dataVars, user_waves_, prev_time, time_history_,
                   velocity_history_, force_hydrostatic_, force_radiation_damping_,
                   force_waves_, total_force_, recorded, nrec, cache>>

----------------------------------------------------------------------------
(* The hydro.yaml parser: ReadHydroYAML *)

\* the literals that the parser compares trimmed lines, keys and values with
StrHydrodynamics ==
    <<"h", "y", "d", "r", "o", "d", "y", "n", "a", "m", "i", "c", "s", ":">>
StrBodies == <<"b", "o", "d", "i", "e", "s", ":">>
StrWaves == <<"w", "a", "v", "e", "s", ":">>
StrItemPrefix == <<"-", " ", "n", "a", "m", "e">>
StrName == <<"n", "a", "m", "e">>
StrH5File == <<"h", "5", "_", "f", "i", "l", "e">>
StrIncludeExcitation ==
    <<"i", "n", "c", "l", "u", "d", "e", "_", "e", "x", "c", "i", "t", "a", "t", "i",
        "o", "n">>
StrIncludeRadiation ==
    <<"i", "n", "c", "l", "u", "d", "e", "_", "r", "a", "d", "i", "a", "t", "i", "o",
        "n">>
StrRadiationCalculation ==
    <<"r", "a", "d", "i", "a", "t", "i", "o", "n", "_", "c", "a", "l", "c", "u", "l",
        "a", "t", "i", "o", "n">>
StrType == <<"t", "y", "p", "e">>
StrHeight == <<"h", "e", "i", "g", "h", "t">>
StrTrue == <<"t", "r", "u", "e">>
StrYes == <<"y", "e", "s">>
StrFalse == <<"f", "a", "l", "s", "e">>
StrNo == <<"n", "o">>
StrConvolution == <<"c", "o", "n", "v", "o", "l", "u", "t", "i", "o", "n">>
StrPeriod == <<"p", "e", "r", "i", "o", "d">>
StrValues == <<"v", "a", "l", "u", "e", "s">>
StrLinspace == <<"l", "i", "n", "s", "p", "a", "c", "e">>
StrRange == <<"r", "a", "n", "g", "e">>
StrStart == <<"s", "t", "a", "r", "t">>
StrStop == <<"s", "t", "o", "p">>
StrNum == <<"n", "u", "m">>
StrStep == <<"s", "t", "e", "p">>
StrInclusive == <<"i", "n", "c", "l", "u", "s", "i", "v", "e">>

\* the lines that the hydro files of the model are made of
LineHydrodynamics ==
    <<"h", "y", "d", "r", "o", "d", "y", "n", "a", "m", "i", "c", "s", ":">>
LineBodies == <<" ", " ", "b", "o", "d", "i", "e", "s", ":">>
LineWaves == <<" ", " ", "w", "a", "v", "e", "s", ":">>
LineItemA == <<" ", " ", " ", " ", "-", " ", "n", "a", "m", "e", ":", " ", "a">>
LineItemQuotedB ==
    <<" ", " ", " ", " ", "-", " ", "n", "a", "m", "e", ":", " ", "\"", "b", "\"">>
\* a list item whose name is empty
LineItemNoName == <<" ", " ", " ", " ", "-", " ", "n", "a", "m", "e", ":">>
\* a list item at indentation 2
LineItemShallow == <<" ", " ", "-", " ", "n", "a", "m", "e", ":", " ", "d">>
LineExcitationNo ==
    <<" ", " ", " ", " ", " ", " ", "i", "n", "c", "l", "u", "d", "e", "_", "e", "x",
        "c", "i", "t", "a", "t", "i", "o", "n", ":", " ", "N", "o">>
LineTypeStill ==
    <<" ", " ", " ", " ", "t", "y", "p", "e", ":", " ", "s", "t", "i", "l", "l">>

\* lines of a waves section: a period with an empty value, a scalar period, the
\* three nested forms, and a property at the indentation of the period line
LinePeriod == <<" ", " ", " ", " ", "p", "e", "r", "i", "o", "d", ":">>
LinePeriodScalar == <<" ", " ", " ", " ", "p", "e", "r", "i", "o", "d", ":", " ", "5">>
LineValues ==
    <<" ", " ", " ", " ", " ", " ", "v", "a", "l", "u", "e", "s", ":", " ", "[", "2",
      ",", " ", "3", "]">>
LineLinspace ==
    <<" ", " ", " ", " ", " ", " ", "l", "i", "n", "s", "p", "a", "c", "e", ":", " ",
      "{", " ", "s", "t", "a", "r", "t", ":", " ", "1", ",", " ", "s", "t", "o", "p",
      ":", " ", "3", ",", " ", "n", "u", "m", ":", " ", "3", " ", "}">>
LineRange ==
    <<" ", " ", " ", " ", " ", " ", "r", "a", "n", "g", "e", ":", " ", "{", " ", "s",
      "t", "a", "r", "t", ":", " ", "2", ",", " ", "s", "t", "o", "p", ":", " ", "6",
      ",", " ", "s", "t", "e", "p", ":", " ", "2", " ", "}">>
LineHeight == <<" ", " ", " ", " ", "h", "e", "i", "g", "h", "t", ":", " ", "2">>

\* the lines a hydro file is drawn from
FileLines ==
    {LineHydrodynamics, LineBodies, LineWaves, LineItemA, LineItemQuotedB,
     LineItemNoName, LineItemShallow, LineExcitationNo, LineTypeStill}

\* the lines a hydro file may start with before the drawn ones
FilePrefixes == {<<>>, <<LineHydrodynamics, LineBodies>>}

\* the hydro files: one that cannot be opened, and the readable ones
HydroFiles ==
    {[opens |-> FALSE, lines |-> <<>>]}
        \cup {[opens |-> TRUE, lines |-> p \o r] :
                 p \in FilePrefixes, r \in UNION {[1..n -> FileLines] : n \in 0..MaxLines}}

\* the lines of a waves section
PeriodLines ==
    {LinePeriod, LinePeriodScalar, LineValues, LineLinspace, LineRange, LineHeight}

\* the hydro files that hold a waves section only
PeriodFiles ==
    {[opens |-> TRUE, lines |-> <<LineHydrodynamics, LineWaves>> \o r] :
        r \in UNION {[1..n -> PeriodLines] : n \in 0..MaxLines}}

\* the characters that count as indentation and that trimming removes
IsBlank(c) == c = " " \/ c = "\t"

\* GetIndentation(line): the number of blanks and tabs the line starts with
GetIndentation(line) ==
    Cardinality({i \in 1..Len(line) : \A j \in 1..i : IsBlank(line[j])})

\* erase(0, find_first_not_of(" \t")) then erase(find_last_not_of(" \t") + 1)
Trim(str) ==
    LET solid == {i \in 1..Len(str) : ~IsBlank(str[i])}
    IN  IF solid = {} THEN <<>>
        ELSE SubSeq(str, CHOOSE i \in solid : \A j \in solid : i <= j,
                         CHOOSE i \in solid : \A j \in solid : j <= i)

\* std::string::substr(pos, n): at most n characters from position pos
SubStr(str, pos, n) ==
    SubSeq(str, pos + 1, IF pos + n < Len(str) THEN pos + n ELSE Len(str))

\* std::string::find(c): the first position of c counted from 1, 0 when absent
FindChar(str, c) ==
    LET hits == {i \in 1..Len(str) : str[i] = c}
    IN  IF hits = {} THEN 0 ELSE CHOOSE i \in hits : \A j \in hits : i <= j

\* ParseYAMLLine(line, key, value): false for an empty line, a comment or a line
\* without a colon; else the trimmed key and the trimmed value without its
\* surrounding double quotes
ParseYAMLLine(line) ==
    LET trimmed == Trim(line)
        colon_pos == FindChar(trimmed, ":")
        key == Trim(SubSeq(trimmed, 1, colon_pos - 1))
        raw == Trim(SubSeq(trimmed, colon_pos + 1, Len(trimmed)))
        value == IF Len(raw) >= 2 /\ raw[1] = "\"" /\ raw[Len(raw)] = "\""
                 THEN SubSeq(raw, 2, Len(raw) - 1)
                 ELSE raw
    IN  IF trimmed = <<>> \/ trimmed[1] = "#" \/ colon_pos = 0
        THEN [ok |-> FALSE, key |-> <<>>, value |-> <<>>]
        ELSE [ok |-> TRUE, key |-> key, value |-> value]

\* ParseDouble(str, default_val) for whole numbers: std::stod reads the number
\* the string starts with, and the default is returned when there is none
ParseDouble(str, default_val) ==
    IF Stoi(str).ok THEN Stoi(str).val ELSE default_val

\* ParseBool(str, default_val)
ParseBool(str, default_val) ==
    LET lower == TransformToLower(str)
    IN  IF lower = StrTrue \/ lower = StrYes \/ lower = <<"1">> THEN TRUE
        ELSE IF lower = StrFalse \/ lower = StrNo \/ lower = <<"0">> THEN FALSE
        ELSE default_val

\* the directory of the hydro file
HydroFileDir == <<"/", "d", "/">>

\* ResolvePath(path, yaml_file_path): an absolute path is returned as it is, a
\* relative one is joined to the directory of the hydro file
ResolvePath(path) ==
    IF path # <<>> /\ path[1] = "/" THEN path ELSE HydroFileDir \o path

\* HydroBody() and WaveSettings(): the defaults of the fields the parser reads
DefaultHydroBody ==
    [name |-> <<>>, h5_file |-> <<>>, include_excitation |-> TRUE,
     include_radiation |-> TRUE, radiation_calculation |-> StrConvolution]

DefaultWaveSettings ==
    [type |-> StrRegular, height |-> 0, period |-> QZero, period_values |-> <<>>]

\* the locals of ReadHydroYAML before the first line is read
ParserAtStart ==
    [in_hydrodynamics |-> FALSE, in_bodies |-> FALSE, in_waves |-> FALSE,
     in_body |-> FALSE, current_body |-> DefaultHydroBody, bodies |-> <<>>,
     waves |-> DefaultWaveSettings,
     in_period_block |-> FALSE, period_block_indent |-> 0,
     period_block_seen |-> FALSE, period_form_values |-> FALSE,
     period_form_linspace |-> FALSE, period_form_range |-> FALSE,
     threw |-> "", undefined |-> FALSE]

\* faulty variant: the current body is saved whatever its name
SaveBodyAnyName(bodies, in_body, current_body) ==
    IF in_body THEN Append(bodies, current_body) ELSE bodies

\* if (in_body && !current_body.name.empty()) data.bodies.push_back(current_body)
SaveBody(bodies, in_body, current_body) ==
    IF in_body /\ current_body.name # <<>> THEN Append(bodies, current_body) ELSE bodies

\* a property line of the current body
ParseBodyProperty(body, key, value) ==
    IF key = StrName THEN [body EXCEPT !.name = value]
    ELSE IF key = StrH5File THEN [body EXCEPT !.h5_file = ResolvePath(value)]
    ELSE IF key = StrIncludeExcitation
    THEN [body EXCEPT !.include_excitation = ParseBool(value, TRUE)]
    ELSE IF key = StrIncludeRadiation
    THEN [body EXCEPT !.include_radiation = ParseBool(value, TRUE)]
    ELSE IF key = StrRadiationCalculation
    THEN [body EXCEPT !.radiation_calculation = value]
    ELSE body

\* the type and height lines of the waves section
ParseWaveProperty(waves, key, value) ==
    IF key = StrType THEN [waves EXCEPT !.type = value]
    ELSE IF key = StrHeight THEN [waves EXCEPT !.height = ParseDouble(value, 0)]
    ELSE waves

\* value.find(sub) != std::string::npos
Contains(str, sub) ==
    \E i \in 1..(Len(str) - Len(sub) + 1) : SubSeq(str, i, i + Len(sub) - 1) = sub

RECURSIVE ReadDoubles(_)
\* while (iss >> v): the whole numbers, separated by blanks, that str starts with
ReadDoubles(str) ==
    LET blanks == Cardinality({i \in 1..Len(str) : \A j \in 1..i : IsBlank(str[j])})
        rest == SubSeq(str, blanks + 1, Len(str))
        run == Cardinality({i \in 1..Len(rest) :
                   \A j \in 1..i : IsDigit(rest[j]) \/ (j = 1 /\ rest[1] \in {"+", "-"})})
    IN  IF Stoi(rest).ok
        THEN <<QInt(Stoi(rest).val)>> \o ReadDoubles(SubSeq(rest, run + 1, Len(rest)))
        ELSE <<>>

\* the numbers between '[' and ']' of value, the commas read as blanks; not ok
\* when a bracket is missing or ']' comes first
BracketList(value) ==
    LET lb == FindChar(value, "[")
        rb == FindChar(value, "]")
        inner == SubSeq(value, lb + 1, rb - 1)
    IN  IF lb = 0 \/ rb = 0 \/ rb <= lb THEN [ok |-> FALSE, values |-> <<>>]
        ELSE [ok |-> TRUE,
              values |-> ReadDoubles([i \in 1..Len(inner) |->
                             IF inner[i] = "," THEN " " ELSE inner[i]])]

RECURSIVE SplitOn(_, _)
\* std::getline(ss, token, c) until the stream ends
SplitOn(str, c) ==
    LET pos == FindChar(str, c)
    IN  IF str = <<>> THEN <<>>
        ELSE IF pos = 0 THEN <<str>>
        ELSE <<SubSeq(str, 1, pos - 1)>> \o SplitOn(SubSeq(str, pos + 1, Len(str)), c)

\* parse_inline_brace_kv(v): the key/value pairs between '{' and '}', a token
\* without a colon skipped, the value without its surrounding quotes
ParseInlineBraceKV(v) ==
    LET lb == FindChar(v, "{")
        rb == FindChar(v, "}")
        tokens == SplitOn(SubSeq(v, lb + 1, rb - 1), ",")
        Pair(token) ==
            LET pos == FindChar(token, ":")
                val == Trim(SubSeq(token, pos + 1, Len(token)))
                quoted == /\ Len(val) >= 2
                          /\ \/ val[1] = "\"" /\ val[Len(val)] = "\""
                             \/ val[1] = "'" /\ val[Len(val)] = "'"
            IN  [has |-> pos # 0, first |-> Trim(SubSeq(token, 1, pos - 1)),
                 second |-> IF quoted THEN SubSeq(val, 2, Len(val) - 1) ELSE val]
    IN  IF lb = 0 \/ rb = 0 \/ rb <= lb THEN <<>>
        ELSE SelectSeq([i \in 1..Len(tokens) |-> Pair(tokens[i])], LAMBDA p : p.has)

\* for (auto& p : kv) if (p.first == key): whether a pair has the key, and the
\* value of the last pair that has it
HasKey(kv, key) == \E i \in 1..Len(kv) : kv[i].first = key
LastValue(kv, key) ==
    kv[CHOOSE i \in 1..Len(kv) :
          kv[i].first = key /\ \A j \in (i + 1)..Len(kv) : kv[j].first # key].second

\* the comparison of two doubles
QLess(x, y) == x[1] * y[2] < y[1] * x[2]

\* the values of linspace: { start, stop, num }
LinspaceValues(start, stop, num) ==
    IF num = 2 THEN <<start, stop>>
    ELSE LET span == QSub(stop, start)
             step == Q(span[1], span[2] * (num - 1))
         IN  [k \in 1..num |-> QAdd(start, QMul(step, QInt(k - 1)))]

RECURSIVE RangeLoop(_, _, _)
\* while (t < stop - eps) { push_back(t); t += step; } with eps = 1e-9: the
\* numbers of the model are whole, so t < stop - eps is t < stop
RangeLoop(t, stop, step) ==
    IF QLess(t, stop) THEN <<t>> \o RangeLoop(QAdd(t, step), stop, step) ELSE <<>>

\* the values of range: { start, stop, step, inclusive }; with start = stop and
\* inclusive the code writes back() of an empty vector, which is undefined
RangeValues(start, stop, step, inclusive) ==
    LET open == RangeLoop(start, stop, step)
        back == IF open = <<>> THEN start ELSE open[Len(open)]
    IN  IF ~inclusive THEN [undefined |-> FALSE, values |-> open]
        ELSE IF back # stop THEN [undefined |-> FALSE, values |-> Append(open, stop)]
        ELSE IF open = <<>> THEN [undefined |-> TRUE, values |-> <<>>]
        ELSE [undefined |-> FALSE, values |-> [open EXCEPT ![Len(open)] = stop]]

StrMultipleFormsValues == "waves.period: multiple forms specified (values + other)"
StrMultipleForms == "waves.period: multiple forms specified"
StrInvalidLinspace == "waves.period: invalid linspace (require start, stop, num>=2)"
StrInvalidRange == "waves.period: invalid range (require start<=stop, step>0)"
StrRangeNoValues == "waves.period: range produced no values"
StrInvalidPeriod == "waves.period: invalid or empty specification"

\* the double that the last pair with key k gives, 0 when no pair has the key
BraceNumber(kv, k) ==
    IF HasKey(kv, k) THEN QInt(ParseDouble(LastValue(kv, k), 0)) ELSE QZero

\* num = std::stoi(p.second), 0 when it throws or no pair has the key
BraceInt(kv, k) ==
    IF HasKey(kv, k) /\ Stoi(LastValue(kv, k)).ok THEN Stoi(LastValue(kv, k)).val ELSE 0

\* the list of a values form is stored: an invalid list is ignored, an empty one
\* clears period_values, and another form given before makes it throw
PeriodValuesForm(st, list) ==
    IF ~list.ok THEN st
    ELSE IF list.values = <<>> THEN [st EXCEPT !.waves.period_values = <<>>]
    ELSE IF st.period_form_linspace \/ st.period_form_range
    THEN [st EXCEPT !.threw = StrMultipleFormsValues]
    ELSE [st EXCEPT !.waves.period_values = list.values,
                    !.waves.period = Head(list.values),
                    !.period_form_values = TRUE]

\* the linspace form: complete when start, stop and num are all given; spaced
\* are its values
PeriodLinspaceForm(st, complete, num, spaced) ==
    IF ~complete \/ num < 2 THEN [st EXCEPT !.threw = StrInvalidLinspace]
    ELSE IF st.period_form_values \/ st.period_form_range
    THEN [st EXCEPT !.threw = StrMultipleForms]
    ELSE [st EXCEPT !.waves.period_values = spaced, !.waves.period = Head(spaced),
                    !.period_form_linspace = TRUE]

\* the range form: complete when start, stop and step are all given; ranged is
\* the outcome of filling period_values
PeriodRangeForm(st, complete, start, stop, step, ranged) ==
    IF ~complete \/ ~QLess(QZero, step) \/ QLess(stop, start)
    THEN [st EXCEPT !.threw = StrInvalidRange]
    ELSE IF st.period_form_values \/ st.period_form_linspace
    THEN [st EXCEPT !.threw = StrMultipleForms]
    ELSE IF ranged.undefined
    THEN [st EXCEPT !.undefined = TRUE, !.period_form_range = TRUE]
    ELSE IF ranged.values = <<>>
    THEN [st EXCEPT !.threw = StrRangeNoValues, !.period_form_range = TRUE,
                    !.waves.period_values = <<>>]
    ELSE [st EXCEPT !.waves.period_values = ranged.values,
                    !.waves.period = Head(ranged.values),
                    !.period_form_range = TRUE]

\* the period line of the waves section, read outside a period block at the
\* indentation indent: a scalar, an inline values list, or the start of a block
ParsePeriodKey(st, indent, value) ==
    LET seen == [st EXCEPT !.period_block_seen = TRUE, !.period_form_values = FALSE,
                           !.period_form_linspace = FALSE, !.period_form_range = FALSE,
                           !.waves.period_values = <<>>]
        looks_structured ==
            FindChar(value, "{") # 0 \/ FindChar(value, "[") # 0 \/ value = <<>>
        inline == IF Contains(value, StrValues) /\ FindChar(value, "[") # 0
                  THEN PeriodValuesForm(seen, BracketList(value))
                  ELSE seen
    IN  IF ~looks_structured
        THEN [seen EXCEPT !.waves.period = QInt(ParseDouble(value, 0)),
                          !.waves.period_values = <<QInt(ParseDouble(value, 0))>>]
        ELSE IF value = <<>> \/ value = <<"|">> \/ value = <<">">>
        THEN [inline EXCEPT !.in_period_block = TRUE, !.period_block_indent = indent]
        ELSE inline

\* the three forms of a period block: list is the bracket list of the value and
\* kv are its brace pairs
PeriodBlockForm(st, key, list, kv) ==
    IF key = StrValues THEN PeriodValuesForm(st, list)
    ELSE IF key = StrLinspace
    THEN PeriodLinspaceForm(st,
             HasKey(kv, StrStart) /\ HasKey(kv, StrStop) /\ HasKey(kv, StrNum),
             BraceInt(kv, StrNum),
             LinspaceValues(BraceNumber(kv, StrStart), BraceNumber(kv, StrStop),
                            BraceInt(kv, StrNum)))
    ELSE IF key = StrRange
    THEN PeriodRangeForm(st,
             HasKey(kv, StrStart) /\ HasKey(kv, StrStop) /\ HasKey(kv, StrStep),
             BraceNumber(kv, StrStart), BraceNumber(kv, StrStop),
             BraceNumber(kv, StrStep),
             RangeValues(BraceNumber(kv, StrStart), BraceNumber(kv, StrStop),
                         BraceNumber(kv, StrStep),
                         IF HasKey(kv, StrInclusive)
                         THEN ParseBool(LastValue(kv, StrInclusive), TRUE)
                         ELSE TRUE))
    ELSE st

\* a values, linspace or range line read inside a period block
ParsePeriodBlockKey(st, key, value) ==
    PeriodBlockForm(st, key, BracketList(value), ParseInlineBraceKV(value))

\* a property line of the waves section (the files of the model give no
\* direction, phase, spectrum or seed)
ParseWaveLine(st, indent, key, value) ==
    IF ~st.in_period_block /\ key \in {StrType, StrHeight}
    THEN [st EXCEPT !.waves = ParseWaveProperty(@, key, value)]
    ELSE IF ~st.in_period_block /\ key = StrPeriod
    THEN ParsePeriodKey(st, indent, value)
    ELSE IF st.in_period_block THEN ParsePeriodBlockKey(st, key, value)
    ELSE st

\* the test at the end of the loop body: the period block is left when the
\* indentation of the line just read is not greater than that of the period line
LeavePeriodBlock(st, indent) ==
    IF st.in_period_block /\ indent <= st.period_block_indent
    THEN [st EXCEPT !.in_period_block = FALSE]
    ELSE st

\* one pass of the loop over the lines of the file
ParseLine(st, line) ==
    LET indent == GetIndentation(line)
        trimmed == Trim(line)
        item == ParseYAMLLine(SubStr(trimmed, 2, Len(trimmed)))
        kv == ParseYAMLLine(line)
        should_parse ==
            \/ st.in_body /\ indent = 6
            \/ st.in_waves /\ (indent = 4 \/ (st.in_period_block
                                                /\ indent >= st.period_block_indent + 2))
    IN  IF st.threw # "" THEN st
        ELSE IF trimmed = <<>> \/ trimmed[1] = "#" THEN st
        ELSE IF indent = 0 /\ trimmed = StrHydrodynamics
        THEN [st EXCEPT !.in_hydrodynamics = TRUE, !.in_bodies = FALSE,
                        !.in_waves = FALSE, !.in_body = FALSE]
        ELSE IF ~st.in_hydrodynamics THEN st
        ELSE IF indent = 2 /\ trimmed = StrBodies
        THEN [st EXCEPT !.in_bodies = TRUE, !.in_waves = FALSE, !.in_body = FALSE]
        ELSE IF indent = 2 /\ trimmed = StrWaves
        THEN [st EXCEPT !.bodies = SaveBody(st.bodies, st.in_body, st.current_body),
                        !.in_waves = TRUE, !.in_bodies = FALSE, !.in_body = FALSE]
        ELSE IF st.in_bodies /\ indent = 4 /\ SubStr(trimmed, 0, 6) = StrItemPrefix
        THEN [st EXCEPT !.bodies = SaveBody(st.bodies, st.in_body, st.current_body),
                        !.current_body =
                            IF item.ok /\ item.key = StrName
                            THEN [DefaultHydroBody EXCEPT !.name = item.value]
                            ELSE DefaultHydroBody,
                        !.in_body = TRUE]
        ELSE IF should_parse /\ kv.ok
        THEN IF st.in_body
             THEN LeavePeriodBlock(
                      [st EXCEPT !.current_body = ParseBodyProperty(@, kv.key, kv.value)],
                      indent)
             ELSE IF st.in_waves
             THEN LeavePeriodBlock(ParseWaveLine(st, indent, kv.key, kv.value), indent)
             ELSE LeavePeriodBlock(st, indent)
        ELSE LeavePeriodBlock(st, indent)

RECURSIVE ReadLines(_, _, _)
\* while (std::getline(file, line)), from line i on
ReadLines(st, lines, i) ==
    IF i > Len(lines) THEN st ELSE ReadLines(ParseLine(st, lines[i]), lines, i + 1)

StrCouldNotOpen == "Could not open hydro file: "
StrNoHydrodynamics == "No 'hydrodynamics:' section found in hydro file: "

\* the validation of the period after the last line: what it throws, or the
\* wave settings with period_values filled from a positive scalar period
FinishPeriod(st) ==
    LET forms == Cardinality({f \in {"values", "linspace", "range"} :
                     \/ f = "values" /\ st.period_form_values
                     \/ f = "linspace" /\ st.period_form_linspace
                     \/ f = "range" /\ st.period_form_range})
        mirrored == [st.waves EXCEPT !.period_values = <<st.waves.period>>]
    IN  IF st.threw # "" THEN [threw |-> TRUE, what |-> st.threw, waves |-> st.waves]
        ELSE IF st.period_block_seen /\ forms > 1
        THEN [threw |-> TRUE, what |-> StrMultipleForms, waves |-> st.waves]
        ELSE IF st.waves.period_values # <<>>
        THEN [threw |-> FALSE, what |-> "", waves |-> st.waves]
        ELSE IF QLess(QZero, st.waves.period)
        THEN [threw |-> FALSE, what |-> "", waves |-> mirrored]
        ELSE IF st.period_block_seen
        THEN [threw |-> TRUE, what |-> StrInvalidPeriod, waves |-> st.waves]
        ELSE [threw |-> FALSE, what |-> "", waves |-> st.waves]

\* faulty variant: the data is returned although no hydrodynamics section was
\* found
FinishReadUnchecked(st, fin) ==
    IF fin.threw
    THEN [threw |-> TRUE, what |-> fin.what,
          data |-> [bodies |-> <<>>, waves |-> DefaultWaveSettings],
          undefined |-> st.undefined]
    ELSE [threw |-> FALSE, what |-> "",
          data |-> [bodies |-> SaveBody(st.bodies, st.in_body, st.current_body),
                    waves |-> fin.waves],
          undefined |-> st.undefined]

\* ReadHydroYAML after the last line: the last body is saved, the period and the
\* hydrodynamics section are validated; st are the locals after the loop and fin
\* is the outcome of the period validation
FinishRead(st, fin) ==
    IF fin.threw
    THEN [threw |-> TRUE, what |-> fin.what,
          data |-> [bodies |-> <<>>, waves |-> DefaultWaveSettings],
          undefined |-> st.undefined]
    ELSE IF ~st.in_hydrodynamics
    THEN [threw |-> TRUE, what |-> StrNoHydrodynamics,
          data |-> [bodies |-> <<>>, waves |-> DefaultWaveSettings],
          undefined |-> FALSE]
    ELSE [threw |-> FALSE, what |-> "",
          data |-> [bodies |-> SaveBody(st.bodies, st.in_body, st.current_body),
                    waves |-> fin.waves],
          undefined |-> st.undefined]

\* the locals of ReadHydroYAML after the loop over the lines, then the validation
ReadAndFinish(st) == FinishRead(st, FinishPeriod(st))

\* ReadHydroYAML(hydro_file_path): what it throws, or the data it returns
ReadHydroYAML(file) ==
    IF ~file.opens
    THEN [threw |-> TRUE, what |-> StrCouldNotOpen,
          data |-> [bodies |-> <<>>, waves |-> DefaultWaveSettings],
          undefined |-> FALSE]
    ELSE ReadAndFinish(ReadLines(ParserAtStart, file.lines, 1))

\* a call of ReadHydroYAML on one hydro file; the parser keeps nothing between
\* two calls, so the first call of a behaviour stands for every call
CallReadHydroYAML(file) ==
    /\ last = NoCall
    /\ last' = [op |-> "ReadHydroYAML", file |-> file, ret |-> ReadHydroYAML(file)]
    /\ UNCHANGED <<hostVars, dataVars, user_waves_, prev_time, time_history_,
                   velocity_history_, force_hydrostatic_, force_radiation_damping_,
                   force_waves_, total_force_, recorded, nrec, cache>>

----------------------------------------------------------------------------
(* The per-body force list of the constructor *)

\* everything but the per-body force list and the call record is left as it is
HookupsFrame ==
    UNCHANGED <<hostVars, rirf_time_vector, b_num_, kernelVars, runner, logsys,
                user_waves_, prev_time, time_history_, velocity_history_,
                force_hydrostatic_,
                force_radiation_damping_, force_waves_, total_force_, recorded, nrec,
                cache>>

\* one pass of the loop for (b < num_bodies_) force_per_body_.emplace_back(...);
\* how far the storage grows when it is full is left to the library
ConstructorEmplaceBack ==
    /\ Len(hookups.vec) < NumBodies
    /\ \E new_capacity \in (Len(hookups.vec) + 1)..MaxCapacity :
           /\ Len(hookups.vec) < hookups.capacity => new_capacity = hookups.capacity
           /\ hookups' = EmplaceBack(hookups, new_capacity)
    /\ UNCHANGED last
    /\ HookupsFrame

\* ComponentFunc::GetVal of component i of the registered force (i < 3) or
\* torque of body k: the call is forwarded through base_ to the ForceFunc6d it
\* points to; the record keeps whether that object is alive
ComponentGetVal(k, i) ==
    /\ hookups.chrono[k].added > 0
    /\ LET base_ == IF i < kDofLinOrRot THEN hookups.chrono[k].force_base
                    ELSE hookups.chrono[k].torque_base
       IN  last' = [op |-> "GetVal", body |-> k, index |-> i, base |-> base_,
                    alive |-> hookups.objs[base_].alive,
                    b_num |-> b_num_[hookups.objs[base_].body]]
    /\ UNCHANGED hookups
    /\ HookupsFrame

CallComponentGetVal == \E k \in Bodies, i \in Dofs : ComponentGetVal(k, i)

----------------------------------------------------------------------------
(* The logging system *)

\* everything but the logging system and the call record is left as it is
LoggingFrame ==
    UNCHANGED <<hostVars, rirf_time_vector, b_num_, kernelVars, runner, hookups,
                user_waves_, prev_time, time_history_, velocity_history_,
                force_hydrostatic_, force_radiation_damping_, force_waves_, total_force_,
                recorded, nrec, cache>>

\* what a thread that locks g_logging_mutex while it owns it may meet: the
\* behaviour is undefined; the thread blocks for ever or the lock throws
\* std::system_error
RelockOutcomes == {"deadlock", "system_error"}

\* hydroc::Initialize(config) by thread t. The lock_guard takes
\* g_logging_mutex. When logging is not initialized the backend and the CLI
\* logger are installed and true is returned. When it is, Shutdown() is called
\* with the mutex held, and Shutdown locks the same mutex again
Initialize(t, outcome) ==
    /\ logsys.pc[t] = "idle"
    /\ logsys.mutex = 0
    /\ IF ~logsys.initialized
       THEN /\ logsys.made < MaxLoggers
            /\ logsys' = [logsys EXCEPT !.made = @ + 1, !.logger = logsys.made + 1,
                                        !.initialized = TRUE]
            /\ last' = [op |-> "Initialize", thread |-> t, err |-> "none", ret |-> TRUE]
       ELSE IF outcome = "deadlock"
       THEN /\ logsys' = [logsys EXCEPT !.mutex = t, !.pc[t] = "blocked_in_shutdown"]
            /\ last' = [op |-> "Initialize", thread |-> t, err |-> "none", ret |-> FALSE]
       ELSE /\ UNCHANGED logsys
            /\ last' = [op |-> "Initialize", thread |-> t, err |-> "system_error",
                        ret |-> FALSE]
    /\ LoggingFrame

\* hydroc::Shutdown() by thread t, all of it under g_logging_mutex
Shutdown(t) ==
    /\ logsys.pc[t] = "idle"
    /\ logsys.mutex = 0
    /\ logsys' = [logsys EXCEPT !.logger = 0, !.initialized = FALSE]
    /\ last' = [op |-> "Shutdown", thread |-> t, err |-> "none"]
    /\ LoggingFrame

\* cli::LogInfo(message) by thread t: GetCLILogger under g_logging_mutex, then
\* the backend writes the line under its own log_mutex_
LogInfo(t) ==
    /\ logsys.pc[t] = "idle"
    /\ logsys.mutex = 0
    /\ last' = [op |-> "LogInfo", thread |-> t, err |-> "none",
                logged |-> logsys.logger # 0]
    /\ UNCHANGED logsys
    /\ LoggingFrame

\* the cli functions that work on fields of the CLILogger object
LoggerCalls == {"CollectWarning", "DisplayWarnings", "ShowProgress", "StopProgress"}
WarningMessages == {"w1", "w2"}

\* cli::CollectWarning, DisplayWarnings, ShowProgress or StopProgress by thread
\* t: GetCLILogger copies g_cli_logger under g_logging_mutex and releases it;
\* with a logger the member function is entered with no lock held
LoggerCallBegin(t, kind, message) ==
    /\ logsys.pc[t] = "idle"
    /\ logsys.mutex = 0
    /\ IF logsys.logger = 0
       THEN /\ UNCHANGED logsys
            /\ last' = [op |-> kind, thread |-> t, err |-> "none", logged |-> FALSE]
       ELSE /\ logsys' = [logsys EXCEPT !.pc[t] = "in_logger", !.held[t] = logsys.logger,
                                        !.op[t] = kind, !.msg[t] = message]
            /\ UNCHANGED last
    /\ LoggingFrame

\* the member function of the CLILogger returns: CollectWarning has added the
\* message unless it was there, ShowProgress has set showing_progress_,
\* StopProgress has cleared it
LoggerCallEnd(t) ==
    /\ logsys.pc[t] = "in_logger"
    /\ LET g == logsys.held[t]
           kind == logsys.op[t]
           known == \E i \in 1..Len(logsys.warnings[g]) :
                        logsys.warnings[g][i] = logsys.msg[t]
       IN  /\ logsys' = [logsys EXCEPT
                            !.pc[t] = "idle", !.held[t] = 0, !.op[t] = "none",
                            !.msg[t] = "none",
                            !.warnings[g] = IF kind = "CollectWarning" /\ ~known
                                            THEN Append(@, logsys.msg[t]) ELSE @,
                            !.showing[g] = IF kind = "ShowProgress" THEN TRUE
                                           ELSE IF kind = "StopProgress" THEN FALSE
                                           ELSE @]
           /\ last' = [op |-> kind, thread |-> t, err |-> "none", logged |-> TRUE]
    /\ LoggingFrame

----------------------------------------------------------------------------
(* The runner: RunHydroChronoFromYAML *)

\* what the runner finds for the hydro file of the setup
HydroFileStates == {"not_specified", "not_found", "parse_error", "parsed"}

\* everything but the runner is left as it is
RunnerFrame ==
    UNCHANGED <<hostVars, rirf_time_vector, b_num_, kernelVars, sideVars, user_waves_,
                prev_time,
                time_history_, velocity_history_, force_hydrostatic_,
                force_radiation_damping_, force_waves_, total_force_, recorded, nrec,
                cache>>

\* Sections 2 and 3: the input files do not resolve or the Chrono system cannot
\* be built; the runner returns 1
RunnerInputsFail ==
    /\ runner.stage = "start"
    /\ runner' = [runner EXCEPT !.stage = "returned", !.returned = "1"]
    /\ last' = [op |-> "RunHydroChronoFromYAML", err |-> "inputs"]
    /\ RunnerFrame

\* Section 5: the hydrodynamic setup. An exception of ReadHydroYAML or of
\* SetupHydroFromYAML is caught and logged, and the runner goes on without
\* hydrodynamic forces
RunnerSetupHydro(hydro_file, hydro_bodies, chrono_bodies, wave_type) ==
    /\ runner.stage = "start"
    /\ LET setup == SetupHydroFromYAML(hydro_bodies, chrono_bodies, wave_type, FALSE)
           outcome == IF hydro_file = "not_specified" THEN "none_specified"
                      ELSE IF hydro_file = "not_found" THEN "file_not_found"
                      ELSE IF hydro_file = "parse_error" THEN "setup_failed"
                      ELSE IF setup.err # "none" THEN "setup_failed"
                      ELSE "initialized"
       IN  /\ runner' = [runner EXCEPT !.stage = "loop", !.hydro = outcome]
           /\ last' = [op |-> "RunHydroChronoFromYAML", err |-> "none",
                       hydro_file |-> hydro_file,
                       setup |-> IF hydro_file = "parsed" THEN setup ELSE NoCall]
    /\ RunnerFrame

\* Section 7: one pass of the simulation loop, system->DoStepDynamics(loop_dt)
RunnerDoStepDynamics ==
    /\ runner.stage = "loop"
    /\ runner.step_count < MaxSteps
    /\ runner' = [runner EXCEPT !.step_count = @ + 1]
    /\ UNCHANGED last
    /\ RunnerFrame

\* the loop ends and the runner returns 0
RunnerReturn ==
    /\ runner.stage = "loop"
    /\ runner' = [runner EXCEPT !.stage = "returned", !.returned = "0"]
    /\ UNCHANGED last
    /\ RunnerFrame

----------------------------------------------------------------------------
(* The host solver *)

\* The host moves to time t and scenario k
HostMove(t, k) ==
    /\ chTime' = t
    /\ bodyState' = k
    /\ last' = NoCall
    /\ UNCHANGED <<dataVars, user_waves_, prev_time, time_history_, velocity_history_,
                   force_hydrostatic_, force_radiation_damping_, force_waves_,
                   total_force_, recorded, nrec, cache>>

\* any next time, in any order (a solver that retries or rewinds a step)
HostStep == \E t \in AnyTimes, k \in Scenarios : HostMove(t, k)

\* strictly increasing time
HostAdvance == \E t \in (chTime + 1)..MaxTime, k \in Scenarios : HostMove(t, k)

\* CoordinateFuncForBody with any indices, the invalid ones included
CallCoordinateAny(cap) ==
    LET r == Recompute(chTime, bodyState)
    IN  \E b \in 0..(NumBodies + 1), d \in (-1)..kDofPerBody :
            CoordinateFuncForBody(b, d, cap, r)

\* CoordinateFuncForBody as the force hookups call it: valid indices only
CallCoordinateFuncForBody(cap) ==
    LET r == Recompute(chTime, bodyState)
    IN  \E b \in Bodies, d \in Dofs : CoordinateFuncForBody(b, d, cap, r)

\* CoordinateFuncForBody as the hookup of the first body calls it for its first
\* component
CallCoordinateFirstComponent(cap) ==
    CoordinateFuncForBody(1, 0, cap, Recompute(chTime, bodyState))

CallAddWaves == \E w \in WaveModels : AddWaves(w)

CallSetRadiationConvolutionMode ==
    \E mode \in RadiationConvolutionMode : SetRadiationConvolutionMode(mode)

\* double ForceFunc6d::CoordinateFunc(int i) of the hookup of the body at
\* 0-based position k of the body list
CoordinateFunc(k, i, cap, r) ==
    IF i >= kDofPerBody \/ i < 0
    THEN /\ last' = [op |-> "CoordinateFunc", err |-> "none", ret |-> QZero]
         /\ UNCHANGED <<hostVars, dataVars, user_waves_, prev_time, time_history_,
                        velocity_history_, force_hydrostatic_, force_radiation_damping_,
                        force_waves_, total_force_, recorded, nrec, cache>>
    ELSE CoordinateFuncForBody(b_num_[k + 1], i, cap, r)

\* the host evaluates a force component of some body
CallCoordinateFunc(cap) ==
    LET r == Recompute(chTime, bodyState)
    IN  \E k \in 0..(NumBodies - 1), i \in (-1)..kDofPerBody : CoordinateFunc(k, i, cap, r)

\* the construction with the default wave model, bodies named in order
InitNoWave == Init /\ user_waves_ = "NoWave" /\ b_num_ = InOrderBodyNumbers

\* the construction with a kernel no longer than the span of AnyTimes, bodies
\* named in order
InitShortKernel == Init /\ Len(rirf_time_vector) <= 2 /\ b_num_ = InOrderBodyNumbers

\* construction with both restrictions
InitNoWaveShortKernel ==
    /\ Init
    /\ user_waves_ = "NoWave" /\ Len(rirf_time_vector) <= 2
    /\ b_num_ = InOrderBodyNumbers

\* the same with the RIRF time vector of two samples
InitNoWaveTwoSamples == InitNoWaveShortKernel /\ Len(rirf_time_vector) = 2

\* construction with any body names, the two-sample kernel and a regular wave
InitAnyNames ==
    Init /\ user_waves_ = "RegularWave" /\ Len(rirf_time_vector) = 2

\* Spec: the coordinator and direct radiation calls, under a host that may rewind
Next ==
    \/ HostStep
    \/ CallCoordinateFuncForBody(MaxCalls)
    \/ CallComputeForceRadiationDampingConv(MaxCalls)

Spec == InitNoWaveShortKernel /\ [][Next]_vars

\* SpecCoord: the coordinator alone, under a host that may rewind
NextCoord ==
    \/ HostStep
    \/ CallCoordinateFuncForBody(MaxRecomputes)

SpecCoord == InitShortKernel /\ [][NextCoord]_vars

\* SpecAdvance: the coordinator and direct radiation calls, at strictly
\* increasing times
NextAdvance ==
    \/ HostAdvance
    \/ CallCoordinateFuncForBody(MaxCalls)
    \/ CallComputeForceRadiationDampingConv(MaxCalls)

SpecAdvance == InitNoWave /\ [][NextAdvance]_vars

\* SpecConvAdvance: direct radiation calls alone, at strictly increasing times
NextConvAdvance ==
    \/ HostAdvance
    \/ CallComputeForceRadiationDampingConv(MaxTime + 2)

SpecConvAdvance == InitNoWave /\ [][NextConvAdvance]_vars

\* SpecCoordAdvance: the coordinator alone, at strictly increasing times
NextCoordAdvance ==
    \/ HostAdvance
    \/ CallCoordinateFuncForBody(MaxTime + 2)

SpecCoordAdvance == InitNoWave /\ [][NextCoordAdvance]_vars

\* SpecHydro: the coordinator and direct hydrostatics calls, under a host that
\* may rewind
NextHydro ==
    \/ HostStep
    \/ CallCoordinateFuncForBody(MaxRecomputes)
    \/ CallComputeForceHydrostatics(MaxRecomputes)

SpecHydro == InitNoWaveShortKernel /\ [][NextHydro]_vars

\* SpecHookup: the force hookups of the bodies, under a host that may rewind
NextHookup ==
    \/ HostStep
    \/ CallCoordinateFunc(MaxCalls)

SpecHookup == InitAnyNames /\ [][NextHookup]_vars

\* SpecAny: the coordinator called with any indices, under a host that may rewind
NextAny ==
    \/ HostStep
    \/ CallCoordinateAny(MaxCalls)

SpecAny == InitNoWaveTwoSamples /\ [][NextAny]_vars

\* SpecTapered: the convolution mode is set and the radiation force is computed,
\* directly or through the coordinator, at strictly increasing times
NextTapered ==
    \/ HostAdvance
    \/ CallSetRadiationConvolutionMode
    \/ CallCoordinateFuncForBody(MaxCalls)
    \/ CallComputeForceRadiationDampingConv(MaxCalls)

SpecTapered == InitNoWaveShortKernel /\ [][NextTapered]_vars

\* SpecWidths: the RIRF widths of any time vector, under either overload of abs
NextWidths ==
    \E times \in RirfTimeVectors, overload \in AbsOverloads :
        ComputeRirfWidths(times, overload)

SpecWidths == InitNoWaveShortKernel /\ [][NextWidths]_vars

\* SpecSetup: the setup from YAML data, for any bodies and wave type
NextSetup ==
    \E hydro_bodies \in SetupBodyLists, chrono_bodies \in ChronoBodyLists,
       wave_type \in WaveTypeInputs, tapered \in BOOLEAN :
        CallSetupHydroFromYAML(hydro_bodies, chrono_bodies, wave_type, tapered)

SpecSetup == InitNoWaveShortKernel /\ [][NextSetup]_vars

\* SpecHistory: the coordinator and direct radiation calls, under a host that
\* may rewind, long enough for samples to be pruned
NextHistory ==
    \/ HostStep
    \/ CallCoordinateFirstComponent(MaxRecomputes)
    \/ CallComputeForceRadiationDampingConv(MaxRecomputes)

SpecHistory == InitNoWaveTwoSamples /\ [][NextHistory]_vars

\* SpecWaves: the wave model is replaced while the coordinator runs, under a host
\* that may rewind
NextWaves ==
    \/ HostStep
    \/ CallCoordinateFirstComponent(MaxRecomputes)
    \/ CallAddWaves

SpecWaves == InitShortKernel /\ [][NextWaves]_vars

\* SpecPeriod: the parser reads a hydro file whose waves section gives a period
NextPeriod == \E file \in PeriodFiles : CallReadHydroYAML(file)

SpecPeriod == InitNoWaveTwoSamples /\ [][NextPeriod]_vars

\* SpecHookups: the constructor fills force_per_body_ while the host may evaluate
\* the forces registered so far
NextHookups ==
    \/ ConstructorEmplaceBack
    \/ CallComponentGetVal

SpecHookups == InitNoWaveShortKernel /\ [][NextHookups]_vars

\* SpecLogging: threads call the public logging functions in any interleaving
NextLogging ==
    \E t \in Threads :
        \/ \E outcome \in RelockOutcomes : Initialize(t, outcome)
        \/ Shutdown(t)
        \/ LogInfo(t)
        \/ \E kind \in LoggerCalls, message \in WarningMessages :
               LoggerCallBegin(t, kind, message)
        \/ LoggerCallEnd(t)

SpecLogging == InitNoWaveTwoSamples /\ [][NextLogging]_vars

\* SpecParser: calls of ReadHydroYAML on hydro files
NextParser == \E file \in HydroFiles : CallReadHydroYAML(file)

SpecParser == InitNoWaveTwoSamples /\ [][NextParser]_vars

\* SpecRunner: one run of the runner
NextRunner ==
    \/ RunnerInputsFail
    \/ \E hydro_file \in HydroFileStates, hydro_bodies \in SetupBodyLists,
          chrono_bodies \in ChronoBodyLists, wave_type \in WaveTypeInputs :
           RunnerSetupHydro(hydro_file, hydro_bodies, chrono_bodies, wave_type)
    \/ RunnerDoStepDynamics
    \/ RunnerReturn

SpecRunner == InitNoWaveShortKernel /\ [][NextRunner]_vars

----------------------------------------------------------------------------
(* Properties *)

IsCoordinateCall(c) == c.op = "CoordinateFuncForBody"
IsRadiationCall(c) == c.op = "ComputeForceRadiationDampingConv"
IsCompletedRecomputation(c) == IsCoordinateCall(c) /\ c.recomputed /\ c.err = "none"

\* C1: a CoordinateFuncForBody(b, d) call with valid indices made while the host
\* time equals prev_time returns total_force_[6(b-1)+d], runs none of the three
\* force computations and leaves prev_time, the force buffers and the histories
\* as they were; a second such call in a row returns the same value.
C1_CachedCallReadsCache ==
    [][ (chTime = prev_time /\ IsCoordinateCall(last') /\ last'.err # "out_of_range")
        => /\ last'.err = "none"
           /\ last'.ret = total_force_[kDofPerBody * (last'.b - 1) + last'.dof + 1]
           /\ last'.nHydrostatics = 0 /\ last'.nRadiation = 0 /\ last'.nWaves = 0
           /\ UNCHANGED <<prev_time, total_force_, force_hydrostatic_,
                          force_radiation_damping_, force_waves_, time_history_,
                          velocity_history_>>
           /\ (IsCoordinateCall(last) /\ last.err = "none"
                 /\ last.b = last'.b /\ last.dof = last'.dof)
              => last'.ret = last.ret ]_vars

\* C1 witness: a cached call returned a non-zero force after a completed recomputation
C1_Witness ==
    /\ IsCoordinateCall(last) /\ last.err = "none" /\ ~last.recomputed
    /\ cache = "complete"
    /\ last.ret # QZero

\* C2 (as claimed): after any sequence of CoordinateFuncForBody calls the time list
\* is strictly descending, so no two retained entries have the same time.
C2_HistoryStrictlyDescending ==
    \A i \in 1..(Len(time_history_) - 1) : time_history_[i] > time_history_[i + 1]

\* C3: after every recomputation done by CoordinateFuncForBody, total_force is
\* hydrostatic - radiation damping + waves in every component (stated as
\* total + radiation damping = hydrostatic + waves).
C3_SignedSum ==
    IsCompletedRecomputation(last)
    => /\ Len(total_force_) = TotalDofs /\ Len(force_waves_) = TotalDofs
       /\ \A i \in 1..TotalDofs :
            QAdd(total_force_[i], force_radiation_damping_[i])
              = QAdd(force_hydrostatic_[i], force_waves_[i])

\* C3 witness: a recomputation with non-zero radiation damping and wave force
C3_Witness ==
    /\ IsCompletedRecomputation(last)
    /\ \E i \in 1..TotalDofs :
         /\ force_radiation_damping_[i] # QZero
         /\ force_waves_[i] # QZero
         /\ force_hydrostatic_[i] # QZero

\* C4 (as claimed): whenever prev_time equals the host time, total_force is the
\* total of a recomputation that ran to its end.
C4_CacheValidAtPrevTime ==
    prev_time = chTime => cache = "complete"

\* C5: a direct ComputeForceRadiationDampingConv call made while the host time
\* equals the newest history time raises the duplicate-step error and records
\* and convolves nothing.
C5_DuplicateStepRaises ==
    [][ (IsRadiationCall(last') /\ nrec' = nrec + 1
           /\ time_history_ # <<>> /\ chTime = Head(time_history_))
        => /\ last'.err = "duplicate"
           /\ UNCHANGED <<time_history_, velocity_history_, force_radiation_damping_>> ]_vars

\* C5 witness: a direct call raised the duplicate-step error
C5_Witness ==
    IsRadiationCall(last) /\ last.err = "duplicate" /\ Len(time_history_) >= 1

\* C6 (as claimed): a CoordinateFuncForBody call with valid indices made when the
\* host time differs from prev_time, or before any recomputation, runs each of
\* the three force computations once and sets prev_time to the host time.
C6_NewTimeRecomputes ==
    [][ (IsCoordinateCall(last') /\ last'.err # "out_of_range"
           /\ (chTime # prev_time \/ cache = "never"))
        => /\ last'.recomputed
           /\ last'.nHydrostatics = 1 /\ last'.nRadiation = 1 /\ last'.nWaves = 1
           /\ prev_time' = chTime ]_vars

\* the retained and the pruned samples, and the window of the newest time
Retained == {time_history_[i] : i \in 1..Len(time_history_)}
RirfMaxTime == rirf_time_vector[Len(rirf_time_vector)]
WindowStart == Head(time_history_) - RirfMaxTime
BeforeWindow == {s \in recorded : s < WindowStart}

\* C7: with latest time t and maximum RIRF time T, at most one retained sample is
\* older than t - T, every recorded sample with time >= t - T is retained, and
\* for every query time in [t - T, t] the newest recorded sample at or before it
\* is retained.
C7_PruningKeepsWindow ==
    time_history_ # <<>>
    => /\ Cardinality({i \in 1..Len(time_history_) : time_history_[i] < WindowStart}) <= 1
       /\ \A s \in recorded : s >= WindowStart => s \in Retained
       /\ \A q \in WindowStart..Head(time_history_) :
            \A s \in recorded :
               (s <= q /\ \A s2 \in recorded : s2 <= q => s2 <= s) => s \in Retained

\* C7 witness: pruning has dropped a sample and one padding sample is retained
C7_Witness ==
    /\ time_history_ # <<>>
    /\ recorded \ Retained # {}
    /\ \E s \in Retained : s < WindowStart

BracketPairs(query) ==
    {i \in 1..(Len(time_history_) - 1) :
        time_history_[i + 1] <= query /\ query <= time_history_[i]}

\* the recorded velocity of column col, linearly interpolated at a bracketed time
VelocityAt(col, query) ==
    LET i == CHOOSE j \in BracketPairs(query) : TRUE
        newer == time_history_[i]
        older == time_history_[i + 1]
        vhb == velocity_history_[(col \div kDofPerBody) + 1]
        weight_older == Q(newer - query, newer - older)
    IN  QAdd(QMul(weight_older, QInt(vhb[i + 1][(col % kDofPerBody) + 1])),
             QMul(QSub(QInt(1), weight_older), QInt(vhb[i][(col % kDofPerBody) + 1])))

RECURSIVE ColumnSum(_, _, _)
\* sum over the columns col, col + 1, ... of RIRF[row, col, step] * v_col(query)
ColumnSum(row, step, col) ==
    IF col >= TotalDofs THEN QZero
    ELSE QAdd(QMul(QInt(GetRIRFVal(row \div kDofPerBody, row % kDofPerBody, col, step)),
                   VelocityAt(col, Head(time_history_) - rirf_time_vector[step + 1])),
              ColumnSum(row, step, col + 1))

RECURSIVE ConvolutionSum(_, _)
\* sum over the steps step, step + 1, ... whose query time t - tau[step] is
\* bracketed by the retained history, and over all columns, of
\* RIRF[row, col, step] * v_col(t - tau[step]) * width[step]
ConvolutionSum(row, step) ==
    IF step >= Len(rirf_time_vector) THEN QZero
    ELSE QAdd(IF BracketPairs(Head(time_history_) - rirf_time_vector[step + 1]) = {}
              THEN QZero
              ELSE QMul(ColumnSum(row, step, 0), RirfWidth(rirf_time_vector, step)),
              ConvolutionSum(row, step + 1))

\* C9: after a recomputation at time t (times strictly increasing), every row of
\* the radiation-damping vector is the sum over the bracketed RIRF steps and all
\* columns of RIRF * interpolated velocity * width, with nothing carried over
\* from an earlier step.
C9_ConvolutionValue ==
    IsCompletedRecomputation(last)
    => \A row \in 0..(TotalDofs - 1) :
          force_radiation_damping_[row + 1] = ConvolutionSum(row, 0)

\* C9 witness: a third recomputation interpolated strictly inside a bracket and
\* produced a non-zero damping force
C9_Witness ==
    /\ IsCompletedRecomputation(last)
    /\ Len(time_history_) >= 3
    /\ \E s \in 1..Len(rirf_time_vector) :
          \E i \in BracketPairs(Head(time_history_) - rirf_time_vector[s]) :
             /\ time_history_[i + 1] < Head(time_history_) - rirf_time_vector[s]
             /\ Head(time_history_) - rirf_time_vector[s] < time_history_[i]
    /\ \E r \in 1..TotalDofs : force_radiation_damping_[r] # QZero

\* C10: the first radiation call after construction returns the zero vector, and
\* a call that leaves fewer than 2 time samples returns the damping vector as it
\* was, without convolving.
C10_ColdStartReturnsBuffer ==
    /\ (IsRadiationCall(last) /\ last.err = "none" /\ last.samples < 2)
       => (last.ret = last.before /\ force_radiation_damping_ = last.before)
    /\ (IsRadiationCall(last) /\ nrec = 1)
       => (last.err = "none" /\ last.ret = ZeroVec(TotalDofs))
    /\ (IsCoordinateCall(last) /\ last.err # "out_of_range" /\ last.recomputed /\ nrec = 1)
       => force_radiation_damping_ = ZeroVec(TotalDofs)

\* C10 witness: the first call recorded a moving body and returned the zero vector
C10_Witness ==
    /\ IsRadiationCall(last) /\ nrec = 1 /\ last.err = "none"
    /\ last.samples = 1
    /\ bodyState # 0

\* restoring + buoyancy force and torque of every body in the pose of scenario k
HydrostaticOfPose(k) ==
    [idx \in 1..TotalDofs |->
        QInt(HydrostaticIncrement(k, (idx - 1) \div kDofPerBody, (idx - 1) % kDofPerBody))]

\* C11 (as claimed): whatever calls came before, a ComputeForceHydrostatics call
\* returns the restoring + buoyancy force and torque of the current poses, so
\* two calls made with the same poses return the same 6N vector.
C11_HydrostaticsPure ==
    last.op = "ComputeForceHydrostatics" => last.ret = HydrostaticOfPose(bodyState)

\* C12 (as claimed): whatever the names of the bodies, a force component i that
\* the hookup of the body at 0-based position k evaluates is
\* total_force[6k + i], queried with the 1-based index b = k + 1.
C12_HookupUsesOwnPosition ==
    [][ \A k \in 0..(NumBodies - 1), i \in Dofs :
            CoordinateFunc(k, i, MaxCalls, Recompute(chTime, bodyState))
            => /\ last'.b = k + 1
               /\ last'.err = "none" /\ last'.ret = total_force_'[kDofPerBody * k + i + 1] ]_vars

\* C13: a CoordinateFuncForBody call with b < 1, b > N, dof < 0 or dof > 5
\* raises the out-of-range error at every host time and in every cache state,
\* and leaves prev_time, the force buffers and the histories as they were.
C13_InvalidIndexRaises ==
    [][ (IsCoordinateCall(last')
           /\ (last'.b < 1 \/ last'.b > NumBodies \/ last'.dof < 0 \/ last'.dof > 5))
        => /\ last'.err = "out_of_range"
           /\ UNCHANGED <<prev_time, total_force_, force_hydrostatic_,
                          force_radiation_damping_, force_waves_, time_history_,
                          velocity_history_>> ]_vars

\* C13 witness: after a completed recomputation and at a new host time, a call
\* with a dof index past the end raised the error
C13_Witness ==
    /\ IsCoordinateCall(last) /\ last.err = "out_of_range"
    /\ last.b \in Bodies /\ last.dof = kDofPerBody
    /\ cache = "complete" /\ chTime # prev_time

\* C14 (as claimed): in mode TaperedDirect, once a radiation convolution has
\* been computed the RIRF preprocessing has run: the state is Ready
\* (rirf_processed_ready_ is true).
C14_TaperedDirectPreprocesses ==
    (convolution_mode_ = "TaperedDirect"
       /\ (IsRadiationCall(last) \/ IsCoordinateCall(last))
       /\ last.err = "none" /\ time_history_ # <<>>)
    => rirf_processed_ready_

\* |x| of a rational
QAbs(x) == <<Abs(x[1]), x[2]>>

RECURSIVE QSum(_, _)
\* v[i] + ... + v[Len(v)]
QSum(v, i) == IF i > Len(v) THEN QZero ELSE QAdd(v[i], QSum(v, i + 1))

\* a time vector that never decreases
IsMonotonic(times) ==
    \A s \in 1..(Len(times) - 1) : QSub(times[s + 1], times[s])[1] >= 0

StoredVelocityAt(col, query) ==
    LET j == CHOOSE i \in 1..Len(time_history_) : time_history_[i] = query
    IN  QInt(velocity_history_[(col \div kDofPerBody) + 1][j][(col % kDofPerBody) + 1])

RECURSIVE StoredColumnSum(_, _, _)
\* as ColumnSum, with the stored velocity for a query time that is a sample time
StoredColumnSum(row, step, col) ==
    IF col >= TotalDofs THEN QZero
    ELSE LET query == Head(time_history_) - rirf_time_vector[step + 1]
         IN  QAdd(QMul(QInt(GetRIRFVal(row \div kDofPerBody, row % kDofPerBody, col, step)),
                       IF query \in Retained THEN StoredVelocityAt(col, query)
                       ELSE VelocityAt(col, query)),
                  StoredColumnSum(row, step, col + 1))

RECURSIVE StoredConvolutionSum(_, _)
\* as ConvolutionSum, over StoredColumnSum
StoredConvolutionSum(row, step) ==
    IF step >= Len(rirf_time_vector) THEN QZero
    ELSE QAdd(IF BracketPairs(Head(time_history_) - rirf_time_vector[step + 1]) = {}
              THEN QZero
              ELSE QMul(StoredColumnSum(row, step, 0), RirfWidth(rirf_time_vector, step)),
              StoredConvolutionSum(row, step + 1))

\* C16: what a convolution call adds to the damping vector is computed, for
\* every step whose query time t - tau[s] is the time of a stored sample, with
\* exactly that sample's stored velocity of every body and DOF, not with a blend
\* of it and a neighbouring sample.
C16_ExactSampleNotBlended ==
    (IsRadiationCall(last) /\ last.err = "none" /\ last.samples >= 2)
    => \A row \in 0..(TotalDofs - 1) :
          QSub(last.ret[row + 1], last.before[row + 1]) = StoredConvolutionSum(row, 0)

\* C16 witness: a call convolved with a query time equal to the time of a sample
\* that has a newer and an older neighbour with other velocities
C16_Witness ==
    /\ IsRadiationCall(last) /\ last.err = "none"
    /\ Len(time_history_) >= 3
    /\ \E s \in 1..Len(rirf_time_vector) :
          /\ Head(time_history_) - rirf_time_vector[s] = time_history_[2]
          /\ BracketPairs(time_history_[2]) # {}
    /\ velocity_history_[1][2] # velocity_history_[1][1]
    /\ velocity_history_[1][2] # velocity_history_[1][3]
    /\ last.ret # last.before

\* a hydrostatic computation that started from zeroed buffers: the one of a
\* recomputation, or the first direct call after construction
IsFreshHydrostatics(c) ==
    \/ IsCoordinateCall(c) /\ c.err # "out_of_range" /\ c.recomputed
    \/ c.op = "ComputeForceHydrostatics" /\ nrec = 1

\* body b (0-based) is at its equilibrium pose and its CB is its CG
AtEquilibriumZeroOffset(b) ==
    /\ BodyPose(bodyState, b) =
          <<GetCGVector(b)[1], GetCGVector(b)[2], GetCGVector(b)[3], 0, 0, 0>>
    /\ GetCBVector(b) = GetCGVector(b)

\* C17: a fresh hydrostatic computation gives a body at its equilibrium pose
\* with zero CB-CG offset the translational force rho * (-g) * displaced_volume
\* and nothing else: the restoring force and torque are exactly zero and so is
\* the buoyancy moment.
C17_EquilibriumGivesBuoyancyOnly ==
    IsFreshHydrostatics(last)
    => \A b \in 0..(NumBodies - 1) :
          AtEquilibriumZeroOffset(b)
          => /\ \A c \in 1..3 :
                   force_hydrostatic_[kDofPerBody * b + c] =
                      QInt(GetRhoVal * (-GetGravitationalAcceleration[c]) * GetDispVolVal(b))
             /\ \A c \in 4..6 : force_hydrostatic_[kDofPerBody * b + c] = QZero

\* C17 witness: a recomputation that was not the first computation gave a body
\* at equilibrium with zero offset a non-zero buoyancy force
C17_Witness ==
    /\ IsCompletedRecomputation(last)
    /\ nrec >= 2
    /\ \E b \in 0..(NumBodies - 1) :
          /\ AtEquilibriumZeroOffset(b)
          /\ force_hydrostatic_[kDofPerBody * b + 3] # QZero

\* two characters that are equal up to the case of a letter
SameCharIgnoringCase(c, d) ==
    \/ c = d
    \/ \E i \in 1..Len(UpperChars) :
          {c, d} = {UpperChars[i], LowerChars[i]}

\* two strings that are equal up to the case of their letters
EqualIgnoringCase(str, lit) ==
    Len(str) = Len(lit) /\ \A i \in 1..Len(str) : SameCharIgnoringCase(str[i], lit[i])

\* the wave model that the claim assigns to a type, "" for an unsupported type
WaveModelOfType(type) ==
    IF EqualIgnoringCase(type, StrRegular) THEN "RegularWave"
    ELSE IF EqualIgnoringCase(type, StrIrregular) THEN "IrregularWaves"
    ELSE IF \E lit \in {StrNoWave, StrStillCi, StrStill} : EqualIgnoringCase(type, lit)
    THEN "NoWave"
    ELSE ""

\* C18: when SetupHydroFromYAML comes to create the wave model (some body
\* matched), a type that is, ignoring case, none of regular, irregular, no_wave,
\* still_ci, still raises an error whose message ends with the type as given
\* and no TestHydro is constructed; each supported type yields its wave model.
C18_UnsupportedWaveTypeRaises ==
    (last.op = "SetupHydroFromYAML"
       /\ \E i \in 1..Len(last.hydro_bodies), j \in 1..Len(last.chrono_bodies) :
             last.hydro_bodies[i] = last.chrono_bodies[j])
    => IF WaveModelOfType(last.type) = ""
       THEN /\ last.result.err = "runtime_error"
            /\ last.result.what = StrUnsupportedWaveType \o last.type
            /\ ~last.result.constructed
       ELSE /\ last.result.err = "none"
            /\ last.result.constructed
            /\ last.result.wave = WaveModelOfType(last.type)

\* C18 witness: a setup with a matching body and a type that is unsupported
\* although it starts like a supported one
C18_Witness ==
    /\ last.op = "SetupHydroFromYAML"
    /\ last.result.err = "runtime_error"
    /\ last.result.what # <<StrNoBodiesFound>>
    /\ Len(last.type) > Len(StrStill)
    /\ SubSeq(last.type, 1, Len(StrStill)) = StrStill

\* C19 (as claimed): after a configuration error in the hydrodynamic setup
\* (parse error, unsupported wave type, no matching body) the runner executes
\* no simulation step and does not return success.
C19_SetupErrorIsFatal ==
    runner.hydro = "setup_failed"
    => runner.step_count = 0 /\ runner.returned # "0"

\* the kind of section header that line i of the file is, "none" for any other
\* line; a header counts from the hydrodynamics line on
HeaderKind(lines, i) ==
    LET indent == GetIndentation(lines[i])
        trimmed == Trim(lines[i])
        opened == \E j \in 1..(i - 1) :
                      GetIndentation(lines[j]) = 0 /\ Trim(lines[j]) = StrHydrodynamics
    IN  IF indent = 0 /\ trimmed = StrHydrodynamics THEN "hydrodynamics"
        ELSE IF opened /\ indent = 2 /\ trimmed = StrBodies THEN "bodies"
        ELSE IF opened /\ indent = 2 /\ trimmed = StrWaves THEN "waves"
        ELSE "none"

\* line i lies in the section that the header of the given kind opens
InSection(lines, i, kind) ==
    \E j \in 1..(i - 1) :
        /\ HeaderKind(lines, j) = kind
        /\ \A k \in (j + 1)..(i - 1) : HeaderKind(lines, k) = "none"

\* line i is a body list item: '- name' at indentation 4 inside 'bodies:'
IsBodyItem(lines, i) ==
    /\ HeaderKind(lines, i) = "none"
    /\ InSection(lines, i, "bodies")
    /\ GetIndentation(lines[i]) = 4
    /\ SubStr(Trim(lines[i]), 0, 6) = StrItemPrefix

\* the line that ends the item of line i: the next item or header, or the line
\* after the last one
ItemEnd(lines, i) ==
    LET stops == {j \in (i + 1)..Len(lines) :
                     IsBodyItem(lines, j) \/ HeaderKind(lines, j) # "none"}
    IN  IF stops = {} THEN Len(lines) + 1
        ELSE CHOOSE j \in stops : \A k \in stops : j <= k

\* the value that line k gives for the key within the item of line i, if any
ItemGives(lines, i, k, key) ==
    IF k = i
    THEN LET item == ParseYAMLLine(SubStr(Trim(lines[i]), 2, Len(lines[i])))
         IN  item.ok /\ item.key = key
    ELSE /\ GetIndentation(lines[k]) = 6
         /\ ParseYAMLLine(lines[k]).ok
         /\ ParseYAMLLine(lines[k]).key = key

\* the name of the item of line i: the last one given within the item
ItemName(lines, i) ==
    LET given == {k \in i..(ItemEnd(lines, i) - 1) : ItemGives(lines, i, k, StrName)}
        k == CHOOSE m \in given : \A n \in given : n <= m
    IN  IF given = {} THEN <<>>
        ELSE IF k = i
        THEN ParseYAMLLine(SubStr(Trim(lines[i]), 2, Len(lines[i]))).value
        ELSE ParseYAMLLine(lines[k]).value

\* a property line of the item of line i gives the key
ItemFieldGiven(lines, i, key) ==
    \E k \in (i + 1)..(ItemEnd(lines, i) - 1) : ItemGives(lines, i, k, key)

\* a property line of the waves section gives the key
WaveFieldGiven(lines, key) ==
    \E k \in 1..Len(lines) :
        /\ HeaderKind(lines, k) = "none"
        /\ InSection(lines, k, "waves")
        /\ GetIndentation(lines[k]) = 4
        /\ ParseYAMLLine(lines[k]).ok
        /\ ParseYAMLLine(lines[k]).key = key

\* every body list of the file is ended by the waves section, by the next item
\* or by the end of the file
ListsEndAtWavesOrEof(lines) ==
    \A i \in 1..Len(lines) :
        IsBodyItem(lines, i) /\ ItemEnd(lines, i) <= Len(lines)
        => \/ IsBodyItem(lines, ItemEnd(lines, i))
           \/ HeaderKind(lines, ItemEnd(lines, i)) = "waves"

\* the lines of the named body list items, in file order
NamedItems(lines) ==
    LET Named(i) == IsBodyItem(lines, i) /\ ItemName(lines, i) # <<>>
    IN  SelectSeq([i \in 1..Len(lines) |-> i], Named)

\* C20: ReadHydroYAML returns one HydroBody per body list item with a non-empty
\* name, each once and in file order, whether the list is ended by the waves
\* section or by the end of the file; the fields that the file does not give for
\* a body or for the waves keep their defaults.
C20_OneBodyPerNamedItem ==
    (last.op = "ReadHydroYAML" /\ ~last.ret.threw
        /\ ListsEndAtWavesOrEof(last.file.lines))
    => LET lines == last.file.lines
           items == NamedItems(lines)
           bodies == last.ret.data.bodies
           waves == last.ret.data.waves
       IN  /\ Len(bodies) = Len(items)
           /\ \A n \in 1..Len(items) :
                  /\ bodies[n].name = ItemName(lines, items[n])
                  /\ ~ItemFieldGiven(lines, items[n], StrH5File)
                         => bodies[n].h5_file = DefaultHydroBody.h5_file
                  /\ ~ItemFieldGiven(lines, items[n], StrIncludeExcitation)
                         => bodies[n].include_excitation
                                = DefaultHydroBody.include_excitation
                  /\ ~ItemFieldGiven(lines, items[n], StrIncludeRadiation)
                         => bodies[n].include_radiation
                                = DefaultHydroBody.include_radiation
                  /\ ~ItemFieldGiven(lines, items[n], StrRadiationCalculation)
                         => bodies[n].radiation_calculation
                                = DefaultHydroBody.radiation_calculation
           /\ ~WaveFieldGiven(lines, StrType) => waves.type = DefaultWaveSettings.type
           /\ ~WaveFieldGiven(lines, StrHeight)
                  => waves.height = DefaultWaveSettings.height

\* two named items, the second ended by the waves section, are returned in file
\* order
C20_Witness ==
    /\ last.op = "ReadHydroYAML"
    /\ ~last.ret.threw
    /\ last.file.lines = <<LineHydrodynamics, LineBodies, LineItemA, LineItemQuotedB,
                           LineWaves>>
    /\ Len(last.ret.data.bodies) = 2
    /\ last.ret.data.bodies[1].name = <<"a">>
    /\ last.ret.data.bodies[2].name = <<"b">>

\* the lines of the file that are 'hydrodynamics:' at indentation 0
HydrodynamicsHeaders(lines) ==
    {i \in 1..Len(lines) : HeaderKind(lines, i) = "hydrodynamics"}

\* the file from its first hydrodynamics header on
FromFirstHeader(file) ==
    LET heads == HydrodynamicsHeaders(file.lines)
        first == CHOOSE i \in heads : \A j \in heads : i <= j
    IN  [file EXCEPT !.lines = SubSeq(file.lines, first, Len(file.lines))]

\* C21: ReadHydroYAML raises the error that no 'hydrodynamics:' section was found
\* exactly when the file opens and has no line that is 'hydrodynamics:' at
\* indentation 0; the lines before that header are ignored: the result is that
\* of the file without them.
C21_NoHydrodynamicsSection ==
    last.op = "ReadHydroYAML"
    => /\ (last.ret.threw /\ last.ret.what = StrNoHydrodynamics)
              <=> (last.file.opens /\ HydrodynamicsHeaders(last.file.lines) = {})
       /\ (last.file.opens /\ HydrodynamicsHeaders(last.file.lines) # {})
              => /\ ~last.ret.threw
                 /\ last.ret = ReadHydroYAML(FromFirstHeader(last.file))

\* a file that opens and has a body list but no hydrodynamics header raises the
\* error
C21_Witness ==
    /\ last.op = "ReadHydroYAML"
    /\ last.file.opens
    /\ last.file.lines = <<LineBodies, LineItemA>>
    /\ last.ret.threw
    /\ last.ret.what = StrNoHydrodynamics

\* C22: once the constructor has filled force_per_body_, every body has its
\* force and torque registered exactly once, and the component functions of
\* both refer to the ForceFunc6d that is alive in the body's slot of the list,
\* however many copies the growth of the list made.
C22_OneLiveHookupPerBody ==
    Len(hookups.vec) = NumBodies
    => \A k \in Bodies :
           /\ hookups.chrono[k].added = 1
           /\ hookups.chrono[k].force_base = hookups.vec[k]
           /\ hookups.chrono[k].torque_base = hookups.vec[k]
           /\ hookups.objs[hookups.vec[k]].alive
           /\ hookups.objs[hookups.vec[k]].body = k

\* the list is full after its storage was replaced at least once, so that
\* copies were made and their originals destroyed
C22_Witness ==
    /\ Len(hookups.vec) = NumBodies
    /\ Len(hookups.objs) > NumBodies
    /\ \E a \in 1..Len(hookups.objs) : ~hookups.objs[a].alive
    /\ last.op = "GetVal"

\* the fields of the CLILogger that a member function works on, and whether it
\* writes them
TouchesWarnings(kind) == kind \in {"CollectWarning", "DisplayWarnings"}
TouchesProgress(kind) == kind \in {"ShowProgress", "StopProgress"}
WritesField(kind) == kind \in {"CollectWarning", "ShowProgress", "StopProgress"}

\* two threads are inside member functions of the same CLILogger that work on
\* the same fields, one of them writing, with no lock held
UnprotectedSharedAccess ==
    \E t1, t2 \in Threads :
        /\ t1 # t2
        /\ logsys.pc[t1] = "in_logger" /\ logsys.pc[t2] = "in_logger"
        /\ logsys.held[t1] = logsys.held[t2]
        /\ \/ TouchesWarnings(logsys.op[t1]) /\ TouchesWarnings(logsys.op[t2])
           \/ TouchesProgress(logsys.op[t1]) /\ TouchesProgress(logsys.op[t2])
        /\ WritesField(logsys.op[t1]) \/ WritesField(logsys.op[t2])

\* C23 (as claimed): in every interleaving of two threads calling the public
\* logging functions, no shared logger state is read or written by one thread
\* while another writes it without mutual exclusion.
C23_LoggingIsThreadSafe == ~UnprotectedSharedAccess

\* C24 (as claimed): Initialize called while logging is initialized completes
\* and returns true, and Shutdown completes: no thread is left blocked inside
\* the logging functions and no call of Initialize ends with an error.
C24_ReinitializeCompletes ==
    /\ \A t \in Threads : logsys.pc[t] # "blocked_in_shutdown"
    /\ last.op = "Initialize" => last.err = "none" /\ last.ret

\* the query time of RIRF step `step` at the newest history time, and whether
\* it is older than every retained sample
QueryTime(step) == Head(time_history_) - rirf_time_vector[step + 1]
RunsOutAt(step) == \A i \in 1..Len(time_history_) : time_history_[i] > QueryTime(step)
RunOutSteps == {step \in 0..(Len(rirf_time_vector) - 1) : RunsOutAt(step)}
FirstRunOutStep == CHOOSE step \in RunOutSteps : \A other \in RunOutSteps : step <= other

RECURSIVE PartialConvolutionSum(_, _, _)
\* the convolution sum of a row over the steps step, ..., stop - 1 only
PartialConvolutionSum(row, step, stop) ==
    IF step >= stop THEN QZero
    ELSE QAdd(IF BracketPairs(QueryTime(step)) = {} THEN QZero
              ELSE QMul(ColumnSum(row, step, 0), RirfWidth(rirf_time_vector, step)),
              PartialConvolutionSum(row, step + 1, stop))

\* C25: when during a convolution the query time of RIRF step s is older than
\* every retained sample, the call raises no error, and the radiation-damping
\* vector holds the contributions of the steps before s and nothing of s or of
\* a later step (times strictly increasing, buffer zeroed by the recomputation).
C25_RunOutStopsQuietly ==
    (IsCoordinateCall(last) /\ last.err # "out_of_range" /\ last.recomputed
        /\ Len(time_history_) >= 2 /\ RunOutSteps # {})
    => /\ last.err = "none"
       /\ \A row \in 0..(TotalDofs - 1) :
             force_radiation_damping_[row + 1]
                 = PartialConvolutionSum(row, 0, FirstRunOutStep)

\* C25 witness: the cursor ran out at a step s >= 1 after earlier steps had added
\* a non-zero contribution
C25_Witness ==
    /\ IsCompletedRecomputation(last)
    /\ Len(time_history_) >= 2
    /\ RunOutSteps # {}
    /\ FirstRunOutStep >= 1
    /\ \E r \in 1..TotalDofs : force_radiation_damping_[r] # QZero

\* the time list and every velocity list have one entry per retained sample
HistoriesSameLength ==
    \A b \in Bodies : Len(velocity_history_[b]) = Len(time_history_)

\* a step that changes a history puts the host time and each body's current
\* velocity in front and keeps the same number n of older entries in every list
PairedPush ==
    (time_history_' # time_history_ \/ velocity_history_' # velocity_history_)
    => /\ time_history_' # <<>>
       /\ Head(time_history_') = chTime
       /\ \A b \in Bodies :
            /\ velocity_history_'[b] # <<>>
            /\ Head(velocity_history_'[b]) = BodyVelocity(bodyState, b - 1)
       /\ \E n \in 0..Len(time_history_) :
            /\ Tail(time_history_') = SubSeq(time_history_, 1, n)
            /\ \A b \in Bodies :
                 Tail(velocity_history_'[b]) = SubSeq(velocity_history_[b], 1, n)

\* C26: after any sequence of ComputeForceRadiationDampingConv and
\* CoordinateFuncForBody calls, raising ones included, the time list and every
\* body's velocity list have the same length, entry i of a velocity list is the
\* velocity recorded with time entry i (samples enter and leave the lists
\* together), and the lists are non-empty once radiation damping was computed.
C26_HistoriesInLockStep ==
    /\ [](HistoriesSameLength /\ (nrec >= 1 => Len(time_history_) >= 1))
    /\ [][PairedPush]_vars

\* C26 witness: a call raised while at least two samples with different
\* velocities are retained
C26_Witness ==
    /\ (IsCoordinateCall(last) \/ IsRadiationCall(last))
    /\ last.err \in {"duplicate", "interpolation"}
    /\ Len(time_history_) >= 2
    /\ \E b \in Bodies : velocity_history_[b][1] # velocity_history_[b][2]

\* a step that is a call of ComputeForceRadiationDampingConv, made directly or by
\* the recomputation branch of CoordinateFuncForBody
RunsRadiationDamping ==
    /\ nrec' = nrec + 1
    /\ IsCoordinateCall(last') \/ IsRadiationCall(last')

\* C28: when ComputeForceRadiationDampingConv raises the duplicate-step error, the
\* time list, every velocity list and the radiation-damping vector are as they
\* were when it was called; within CoordinateFuncForBody that is the buffer the
\* coordinator has just zeroed.
C28_DuplicateRaiseRecordsNothing ==
    [][ (RunsRadiationDamping /\ last'.err = "duplicate")
        => /\ UNCHANGED <<time_history_, velocity_history_, recorded>>
           /\ force_radiation_damping_'
                = IF IsRadiationCall(last') THEN force_radiation_damping_
                  ELSE FillZero(force_radiation_damping_) ]_vars

\* C28 witness: a direct call raised the duplicate-step error over a non-zero
\* radiation-damping vector and two recorded samples
C28_Witness ==
    /\ IsRadiationCall(last) /\ last.err = "duplicate"
    /\ Len(time_history_) = 2
    /\ \E i \in 1..TotalDofs : force_radiation_damping_[i] # QZero

\* the RIRF time vector is non-negative and non-decreasing
RirfTimesOrdered ==
    /\ \A i \in 1..Len(rirf_time_vector) : rirf_time_vector[i] >= 0
    /\ \A i \in 1..(Len(rirf_time_vector) - 1) :
         rirf_time_vector[i] <= rirf_time_vector[i + 1]

\* C29 (as claimed): driven only through CoordinateFuncForBody with valid indices,
\* for every sequence of host times and a non-negative, non-decreasing RIRF time
\* vector, no call raises the duplicate-step or the interpolation error, and after
\* each recomputation prev_time is the newest history time.
C29_CoordinatorNeverRaises ==
    (RirfTimesOrdered /\ IsCoordinateCall(last))
    => /\ last.err = "none"
       /\ last.recomputed
          => time_history_ # <<>> /\ prev_time = Head(time_history_)

\* C29 witness: a recomputation at a rewound host time ran to its end over a
\* history of three samples that is not in descending order
C29_Witness ==
    /\ IsCompletedRecomputation(last)
    /\ Len(time_history_) >= 3
    /\ \E i \in 1..(Len(time_history_) - 1) : time_history_[i] <= time_history_[i + 1]
    /\ prev_time = Head(time_history_)

IsAddWavesCall(c) == c.op = "AddWaves"

\* C30: AddWaves replaces the wave model and leaves prev_time, total_force_, the
\* force buffers and the histories as they were; a CoordinateFuncForBody call at
\* the unchanged host time right after it returns the cached total and computes
\* nothing, and every recomputation takes its wave force from the model that is
\* installed when it runs.
C30_AddWavesKeepsCache ==
    [][ /\ IsAddWavesCall(last')
           => UNCHANGED <<prev_time, total_force_, force_hydrostatic_,
                          force_radiation_damping_, force_waves_, time_history_,
                          velocity_history_, chTime>>
        /\ (IsAddWavesCall(last) /\ IsCoordinateCall(last') /\ chTime = prev_time)
           => /\ last'.err = "none" /\ ~last'.recomputed
              /\ last'.ret = total_force_[kDofPerBody * (last'.b - 1) + last'.dof + 1]
              /\ UNCHANGED <<total_force_, force_waves_>>
        /\ (IsCoordinateCall(last') /\ last'.recomputed /\ last'.err = "none")
           => /\ force_waves_' = GetForceAtTime(user_waves_, chTime)
              /\ total_force_' = TotalForce(force_hydrostatic_',
                                     force_radiation_damping_', force_waves_') ]_vars

\* C30 witness: right after the regular wave replaced NoWave, a cached call at the
\* unchanged host time returned the total computed without wave force, which
\* differs from the total the new model gives at that time
C30_Witness ==
    /\ IsCoordinateCall(last) /\ last.err = "none" /\ ~last.recomputed
    /\ cache = "complete"
    /\ chTime = prev_time
    /\ user_waves_ = "RegularWave"
    /\ force_waves_ = GetForceAtTime("NoWave", prev_time)
    /\ last.ret = total_force_[kDofPerBody * (last.b - 1) + last.dof + 1]
    /\ last.ret # TotalForce(force_hydrostatic_, force_radiation_damping_,
                      GetForceAtTime(user_waves_, prev_time))
                      [kDofPerBody * (last.b - 1) + last.dof + 1]

\* the positions of the period lines with an empty value, and of the lines that
\* give a period in any form
PeriodHeads(lines) == {i \in 1..Len(lines) : lines[i] = LinePeriod}
PeriodFormLines == {LineValues, LineLinspace, LineRange}
PeriodGivers(lines) ==
    {i \in 1..Len(lines) : lines[i] \in PeriodFormLines \cup {LinePeriod, LinePeriodScalar}}

\* a waves section with one nested period block: a period line with an empty
\* value, directly followed by one more-indented values, linspace or range line,
\* and no other line that gives a period
HasOneNestedPeriodBlock(lines) ==
    \E i \in PeriodHeads(lines) :
        /\ i < Len(lines)
        /\ lines[i + 1] \in PeriodFormLines
        /\ GetIndentation(lines[i + 1]) > GetIndentation(lines[i])
        /\ PeriodGivers(lines) = {i, i + 1}

\* the form line of that block
NestedFormLine(lines) == lines[(CHOOSE i \in PeriodHeads(lines) : TRUE) + 1]

\* the values the three form lines of the model list: 2, 3; three evenly spaced
\* values from 1 to 3; 2, 2 + 2, ... up to 6
ListedPeriodValues(form) ==
    IF form = LineValues THEN <<QInt(2), QInt(3)>>
    ELSE IF form = LineLinspace THEN <<QInt(1), QInt(2), QInt(3)>>
    ELSE <<QInt(2), QInt(4), QInt(6)>>

\* C27 (as claimed): a nested period block in the waves section is parsed:
\* ReadHydroYAML returns period_values equal to the values the values, linspace
\* or range line gives, and period equal to the first of them.
C27_NestedPeriodBlockParsed ==
    (last.op = "ReadHydroYAML" /\ HasOneNestedPeriodBlock(last.file.lines))
    => /\ ~last.ret.threw
       /\ ~last.ret.undefined
       /\ last.ret.data.waves.period_values
              = ListedPeriodValues(NestedFormLine(last.file.lines))
       /\ last.ret.data.waves.period
              = Head(ListedPeriodValues(NestedFormLine(last.file.lines)))

====
